---- MODULE Spec2Model ----
(***************************************************************************)
(* State-machine model of the resolution-and-caching pipeline of N.py:     *)
(* the admission gate (check_api_key), the cache index (get_cached_file,   *)
(* save_cache_record), the single-flight archiver                          *)
(* (background_download_and_upload), the quality selection                 *)
(* (choose_best_quality), the origin client (get_random_cdn,               *)
(* savetube_info, savetube_download) and the handlers ytmp4 and ytmp3.     *)
(* Every coroutine is cut at its await points: one action is the code      *)
(* that runs between two awaits, together with the store or network        *)
(* operation the await performs.  A handler and the coroutines it awaits   *)
(* share a number: request r makes call r of check_api_key, lookup r of    *)
(* get_cached_file and creates task r.                                     *)
(***************************************************************************)
EXTENDS Integers, FiniteSets, Sequences, TLC

\* ------------------------------------------------------------------ bounds
NCalls == 2      \* check_api_key invocations that run concurrently
NSeqCalls == 4   \* check_api_key invocations that run one after the other
MaxDay == 2      \* last canonical day the clock reaches
MaxLimit == 2    \* largest daily_limit a token is created with
MaxFormats == 3  \* longest "formats" list of a metadata document
MaxDescriptor == 2  \* distinct heights / bitrates: 480 * 1 .. 480 * MaxDescriptor
NRequests == 1   \* ytmp4/ytmp3 requests sent with every argument
NResolves == 2   \* ytmp4/ytmp3 requests sent with an admitted key
MaxExtra == 1    \* longest run of id characters in an input: TokenLen + MaxExtra
MaxValue == 9    \* longest string value in an encrypted JSON document
MaxIv == 2       \* initialization vectors: IvOf(0) .. IvOf(MaxIv)
NProcs == 2      \* server processes that share the record store
NJobs == 2       \* background_download_and_upload tasks
NIndexJobs == 1  \* tasks that run beside the get_cached_file invocations
NLookups == 1    \* get_cached_file invocations
NReads == 2      \* get_cached_file invocations that follow one another
NCounted == 2    \* ytmp4 requests sent one after the other with a stored key

\* --------------------------------------------------------------- constants
NoDate == -1     \* last_used_date = None
NoExpiry == -1   \* expiry_date = None
NoId == 0        \* a document that has no _id: the dict save_cache_record builds
StoredId == 100  \* _id, file_id and msg_id of a document stored by an earlier run

Days == 0..MaxDay

\* The keys a caller can present: none, one that is in no record, a stored one.
NoKey == ""
KnownKeys == {"k1"}
Keys == {NoKey, "bad"} \cup KnownKeys

NoRecord == [used_today |-> -1, last_used_date |-> NoDate,
             daily_limit |-> -1, expiry_date |-> NoExpiry]

VARIABLES
    clock,      \* the current day: ist_date_str() and utcnow() read it
    apikeys,    \* mongodb.apikeys: key -> record
    cpc,        \* check_api_key call -> its position
    ckey,       \* check_api_key call -> the key argument
    crec,       \* check_api_key call -> its local `record`
    ctoday,     \* check_api_key call -> its local `today`
    cwrites,    \* history: the store updates each call has issued
    cseen,      \* history: the counter each call compared with the limit
    cafter,     \* history: the stored counter when the call returned or raised
    cache,      \* mongodb.cache: the set of stored documents
    IN_MEMORY_CACHE,  \* process -> cache_key -> document
    PROCESSING_SET,   \* process -> set of cache_keys
    DOWNLOAD_DIR,     \* process -> the directory its DOWNLOAD_DIR names
    files,      \* directory -> the paths that exist in it
    telegram,   \* the messages uploaded to the cache channel
    job,        \* background task -> its arguments, position and history
    lk,         \* get_cached_file call -> its arguments, position and result
    lastPub,    \* history: process -> cache_key -> the document a
                \* save_cache_record has just left in IN_MEMORY_CACHE
    req,        \* ytmp4/ytmp3 request -> its arguments, locals, position,
                \* response and history
    pure        \* a pure function under evaluation: its arguments and result

admitVars == <<clock, apikeys, cpc, ckey, crec, ctoday, cwrites, cseen, cafter>>
archiveVars == <<cache, IN_MEMORY_CACHE, PROCESSING_SET, files, DOWNLOAD_DIR, telegram,
                 job, lk, lastPub>>
resolveVars == <<req, pure>>
vars == <<admitVars, archiveVars, resolveVars>>

\* The calls of a run.
Calls == DOMAIN cpc

\* Calls are numbered in the order they are made.
NextCall(c) == \A b \in Calls : b < c => cpc[b] # "idle"

\* ---------------------------------------------------------- admission gate

\* create_api_key: the document a new key is stored as.
create_api_key(limit, expiry) ==
    [used_today |-> 0, last_used_date |-> NoDate,
     daily_limit |-> limit, expiry_date |-> expiry]

\* ist_date_str(): the canonical date of the moment it is called.
ist_date_str == clock

\* mongodb.apikeys.find_one({"key": key}).
find_one_apikey(key) == IF key \in KnownKeys THEN apikeys[key] ELSE NoRecord

\* expiry set and in the past.
Expired(record, now) ==
    record.expiry_date # NoExpiry /\ record.expiry_date < now

\* record.get("last_used_date") != today
StaleDate(record, today) == record.last_used_date # today

\* The quota test off by one: one call too many passes.
LimitReachedOffByOne(used, limit) == used > limit

\* used >= limit
LimitReached(used, limit) == used >= limit

\* A reset that moves the date and leaves the counter.
SetResetDateOnly(doc, today) == [doc EXCEPT !.last_used_date = today]

\* {"$set": {"used_today": 0, "last_used_date": today}}
SetReset(doc, today) == [doc EXCEPT !.used_today = 0, !.last_used_date = today]

\* {"$inc": {"used_today": 1}}
IncUsed(doc) == [doc EXCEPT !.used_today = @ + 1]

\* update_one({"key": key}, update): applies to the stored document, if any.
update_one_apikey(key, doc) ==
    IF key \in KnownKeys THEN [apikeys EXCEPT ![key] = doc] ELSE apikeys

Settled == {"admitted", "r401", "r403", "r429"}

\* A call returns or raises; the counter the store holds at that moment is
\* recorded.
Settle(c, result, store) ==
    /\ cpc' = [cpc EXCEPT ![c] = result]
    /\ cafter' = [cafter EXCEPT ![c] = IF ckey[c] \in KnownKeys
                                       THEN store[ckey[c]].used_today ELSE -1]

\* The quota test of lines 748-752 on the local record, and what follows it.
QuotaStep(c, record, store) ==
    /\ cseen' = [cseen EXCEPT ![c] = record.used_today]
    /\ IF LimitReached(record.used_today, record.daily_limit)
       THEN Settle(c, "r429", store)
       ELSE cpc' = [cpc EXCEPT ![c] = "inc"] /\ cafter' = cafter

\* check_api_key(key) is entered; an absent key is rejected at once.
check_api_key_enter(c, key) ==
    /\ cpc[c] = "idle"
    /\ ckey' = [ckey EXCEPT ![c] = key]
    /\ cpc' = [cpc EXCEPT ![c] = IF key = NoKey THEN "r401" ELSE "find"]
    /\ UNCHANGED <<clock, apikeys, crec, ctoday, cwrites, cseen, cafter>>
    /\ UNCHANGED archiveVars
    /\ UNCHANGED resolveVars

\* await find_one: the store is read; an unknown key is rejected.
check_api_key_find(c) ==
    /\ cpc[c] = "find"
    /\ LET record == find_one_apikey(ckey[c]) IN
       IF record = NoRecord
       THEN Settle(c, "r401", apikeys) /\ crec' = crec
       ELSE /\ crec' = [crec EXCEPT ![c] = record]
            /\ cpc' = [cpc EXCEPT ![c] = "check"]
            /\ cafter' = cafter
    /\ UNCHANGED <<clock, apikeys, ckey, ctoday, cwrites, cseen>>
    /\ UNCHANGED archiveVars
    /\ UNCHANGED resolveVars

\* The day-rollover reset written before the expiry test.
check_api_key_check_reset_first(c) ==
    /\ cpc[c] = "check"
    /\ ctoday' = [ctoday EXCEPT ![c] = ist_date_str]
    /\ LET stale == StaleDate(crec[c], ist_date_str)
           store == IF stale
                    THEN update_one_apikey(ckey[c],
                             SetReset(apikeys[ckey[c]], ist_date_str))
                    ELSE apikeys
           record == IF stale THEN [crec[c] EXCEPT !.used_today = 0]
                     ELSE crec[c]
       IN /\ apikeys' = store
          /\ crec' = [crec EXCEPT ![c] = record]
          /\ cwrites' = [cwrites EXCEPT
                            ![c] = IF stale THEN @ \cup {"reset"} ELSE @]
          /\ IF Expired(crec[c], clock)
             THEN Settle(c, "r403", store) /\ cseen' = cseen
             ELSE QuotaStep(c, record, store)
    /\ UNCHANGED <<clock, ckey>>
    /\ UNCHANGED archiveVars
    /\ UNCHANGED resolveVars

\* Lines 733-752 up to the next await: the expiry test, today's date, and
\* either the reset update is issued or the quota is tested.
check_api_key_check(c) ==
    /\ cpc[c] = "check"
    /\ IF Expired(crec[c], clock)
       THEN /\ Settle(c, "r403", apikeys)
            /\ UNCHANGED <<ctoday, cseen>>
       ELSE /\ ctoday' = [ctoday EXCEPT ![c] = ist_date_str]
            /\ IF StaleDate(crec[c], ist_date_str)
               THEN /\ cpc' = [cpc EXCEPT ![c] = "reset"]
                    /\ UNCHANGED <<cafter, cseen>>
               ELSE QuotaStep(c, crec[c], apikeys)
    /\ UNCHANGED <<clock, apikeys, ckey, crec, cwrites>>
    /\ UNCHANGED archiveVars
    /\ UNCHANGED resolveVars

\* await update_one($set): the store applies the reset, then the local
\* record's counter is zeroed and the quota is tested on it.
check_api_key_reset(c) ==
    /\ cpc[c] = "reset"
    /\ LET store == update_one_apikey(ckey[c],
                        SetReset(apikeys[ckey[c]], ctoday[c]))
           record == [crec[c] EXCEPT !.used_today = 0]
       IN /\ apikeys' = store
          /\ crec' = [crec EXCEPT ![c] = record]
          /\ cwrites' = [cwrites EXCEPT ![c] = @ \cup {"reset"}]
          /\ QuotaStep(c, record, store)
    /\ UNCHANGED <<clock, ckey, ctoday>>
    /\ UNCHANGED archiveVars
    /\ UNCHANGED resolveVars

\* The call returns without the increment being issued.
check_api_key_no_inc(c) ==
    /\ cpc[c] = "inc"
    /\ Settle(c, "admitted", apikeys)
    /\ UNCHANGED <<clock, apikeys, ckey, crec, ctoday, cwrites, cseen>>
    /\ UNCHANGED archiveVars
    /\ UNCHANGED resolveVars

\* await update_one($inc): the store adds one to the counter; the call
\* returns the record.
check_api_key_inc(c) ==
    /\ cpc[c] = "inc"
    /\ LET store == update_one_apikey(ckey[c], IncUsed(apikeys[ckey[c]])) IN
       /\ apikeys' = store
       /\ Settle(c, "admitted", store)
    /\ cwrites' = [cwrites EXCEPT ![c] = @ \cup {"inc"}]
    /\ UNCHANGED <<clock, ckey, crec, ctoday, cseen>>
    /\ UNCHANGED archiveVars
    /\ UNCHANGED resolveVars

\* Midnight in Asia/Kolkata: the canonical date changes.
Tick ==
    /\ clock < MaxDay
    /\ clock' = clock + 1
    /\ UNCHANGED <<apikeys, cpc, ckey, crec, ctoday, cwrites, cseen, cafter>>
    /\ UNCHANGED archiveVars
    /\ UNCHANGED resolveVars

\* ------------------------------------------------------------ cache index

Procs == 1..NProcs
Jobs == DOMAIN job
Lookups == DOMAIN lk
Reqs == DOMAIN req

\* Tasks and lookups are numbered in the order they are made.
NextJob(j) == \A i \in Jobs : i < j => job[i].pc # "idle"
NextLookup(l) == \A b \in Lookups : b < l => lk[b].pc # "idle"

\* A string the code looks into is the sequence of its characters.
idA == <<"i", "d", "A", "_", "-", "0", "1", "2", "3", "4", "5">>
Ids == {idA}
\* Another video, for the pairs that differ in the identifier.
idB == <<"i", "d", "B", "_", "-", "0", "1", "2", "3", "4", "5">>
AllIds == Ids \cup {idB}
Kinds == {"video", "audio"}
Qualities == {"720"}

\* The download URLs savetube_download can return.
DownloadUrls == {<<"downloadUrl", 1>>, <<"downloadUrl", 2>>}
AnyUrl == CHOOSE u \in DownloadUrls : TRUE
NoUrl == <<"", 0>>

\* A title that is no string: the metadata document holds "title": null.
NullTitle == "None"
Titles == {"Title", NullTitle}

\* cache_key = f"{ytid}:{media_type}"
CacheKey(ytid, type) == <<ytid, type>>
CacheKeys == {CacheKey(y, t) : y \in AllIds, t \in Kinds}

NoDoc == [_id |-> NoId, ytid |-> <<>>, type |-> "", file_id |-> 0, msg_id |-> 0,
          file_name |-> <<>>, title |-> "", quality |-> ""]

\* filename = f"{ytid}_{media_type}_{quality}.{ext}"
FileName(ytid, type, quality) == <<ytid, type, quality>>

\* The dict save_cache_record builds (lines 704-713); meta is
\* {"title": title, "quality": quality, **meta}.
Doc(ytid, type, file_id, msg_id, file_name, title, quality) ==
    [_id |-> NoId, ytid |-> ytid, type |-> type, file_id |-> file_id,
     msg_id |-> msg_id, file_name |-> file_name, title |-> title,
     quality |-> quality]

\* The stored documents that match {"ytid": ytid}.
MatchingYtid(ytid, type) == {d \in cache : d.ytid = ytid}

\* The stored documents that match {"ytid": ytid, "type": media_type}.
Matching(ytid, type) == {d \in cache : d.ytid = ytid /\ d.type = type}

\* Processes are numbered in the order they first act.
Started(p) ==
    \A q \in Procs : q < p =>
        \/ \E j \in Jobs : job[j].proc = q
        \/ \E l \in Lookups : lk[l].proc = q
        \/ \E r \in Reqs : req[r].proc = q

\* The local map left as it was.
RefreshNothing(mem, p, key, doc) == mem

\* IN_MEMORY_CACHE[cache_key] = doc
RefreshLocal(mem, p, key, doc) == [mem EXCEPT ![p][key] = doc]

\* get_cached_file is entered (lines 690-695): an entry of the local map is
\* returned at once, otherwise find_one is issued.
get_cached_file_enter(l, p, ytid, type) ==
    /\ lk[l].pc = "idle"
    /\ Started(p)
    /\ LET key == CacheKey(ytid, type)
           hit == IN_MEMORY_CACHE[p][key] # NoDoc
       IN lk' = [lk EXCEPT ![l] =
                   [pc |-> IF hit THEN "done" ELSE "find",
                    proc |-> p, ytid |-> ytid, type |-> type,
                    result |-> IN_MEMORY_CACHE[p][key],
                    queried |-> FALSE,
                    after |-> lastPub[p][key]]]
    /\ UNCHANGED <<cache, IN_MEMORY_CACHE, PROCESSING_SET, files, DOWNLOAD_DIR, telegram,
                   job, lastPub>>
    /\ UNCHANGED admitVars
    /\ UNCHANGED resolveVars

\* find_one's document returned without the local map being set.
get_cached_file_find_only(l) ==
    /\ lk[l].pc = "find"
    /\ LET found == Matching(lk[l].ytid, lk[l].type)
       IN IF found = {}
          THEN lk' = [lk EXCEPT ![l].pc = "done", ![l].queried = TRUE]
          ELSE \E doc \in found :
               lk' = [lk EXCEPT ![l].pc = "done", ![l].queried = TRUE,
                                ![l].result = doc]
    /\ UNCHANGED <<cache, IN_MEMORY_CACHE, PROCESSING_SET, files, DOWNLOAD_DIR, telegram, job,
                   lastPub>>
    /\ UNCHANGED admitVars
    /\ UNCHANGED resolveVars

\* await find_one (lines 695-700): a stored document is put in the local map
\* and returned; without one the call returns None.
get_cached_file_find(l) ==
    /\ lk[l].pc = "find"
    /\ LET p == lk[l].proc
           key == CacheKey(lk[l].ytid, lk[l].type)
           found == Matching(lk[l].ytid, lk[l].type)
       IN IF found = {}
          THEN /\ lk' = [lk EXCEPT ![l].pc = "done", ![l].queried = TRUE]
               /\ UNCHANGED <<IN_MEMORY_CACHE, lastPub>>
          ELSE \E doc \in found :
               /\ lk' = [lk EXCEPT ![l].pc = "done", ![l].queried = TRUE,
                                   ![l].result = doc]
               /\ IN_MEMORY_CACHE' = RefreshLocal(IN_MEMORY_CACHE, p, key, doc)
               /\ lastPub' = [lastPub EXCEPT ![p][key] = NoDoc]
    /\ UNCHANGED <<cache, PROCESSING_SET, files, DOWNLOAD_DIR, telegram, job>>
    /\ UNCHANGED admitVars
    /\ UNCHANGED resolveVars

\* -------------------------------------------------- single-flight archiver

\* The positions of a task between its check-and-mark and its cleanup.
Running == {"download", "upload", "save", "insert", "mem", "cleanup"}

JobKey(j) == CacheKey(job[j].ytid, job[j].type)
JobFile(j) == FileName(job[j].ytid, job[j].type, job[j].quality)

\* The directory of filepath = os.path.join(DOWNLOAD_DIR, filename).
JobDir(j) == DOWNLOAD_DIR[job[j].proc]

\* The other tasks of j's process that hold j's cache_key.
Holders(j, p, key) ==
    {i \in Jobs \ {j} : /\ job[i].pc \in Running \cup {"crashed"}
                        /\ job[i].proc = p
                        /\ JobKey(i) = key}

IdleJob == [pc |-> "idle", proc |-> 0, ytid |-> <<>>, type |-> "",
            download_url |-> NoUrl, title |-> "", quality |-> "",
            overlap |-> {}, did |-> {}]

\* The membership test answered "no" whatever the set holds.
NeverProcessing(p, key) == FALSE

\* cache_key in PROCESSING_SET
AlreadyProcessing(p, key) == key \in PROCESSING_SET[p]

\* The mark left in the set.
DiscardNothing(set, key) == set

\* PROCESSING_SET.discard(cache_key)
Discard(set, key) == set \ {key}

\* sanitize_filename(title): re.sub raises TypeError unless title is a string.
SanitizeRaises(title) == title = NullTitle

\* asyncio.create_task(background_download_and_upload(...)) (lines 1076-1086
\* and 1157-1167): a handler of process p schedules the task.
create_task(j, p, ytid, type, download_url, title, quality) ==
    /\ job[j].pc = "idle"
    /\ Started(p)
    /\ job' = [job EXCEPT ![j] = [IdleJob EXCEPT
                  !.pc = "start", !.proc = p, !.ytid = ytid, !.type = type,
                  !.download_url = download_url,
                  !.title = title, !.quality = quality]]
    /\ UNCHANGED <<cache, IN_MEMORY_CACHE, PROCESSING_SET, files, DOWNLOAD_DIR, telegram,
                   lk, lastPub>>
    /\ UNCHANGED admitVars
    /\ UNCHANGED resolveVars

\* Lines 828-841, the code before the first await: the check and the mark,
\* then the file name; no try block covers these lines.
background_start(j) ==
    /\ job[j].pc = "start"
    /\ LET p == job[j].proc
           key == JobKey(j)
       IN IF AlreadyProcessing(p, key)
          THEN /\ job' = [job EXCEPT ![j].pc = "skipped",
                                     ![j].overlap = Holders(j, p, key)]
               /\ UNCHANGED PROCESSING_SET
          ELSE /\ PROCESSING_SET' = [PROCESSING_SET EXCEPT ![p] = @ \cup {key}]
               /\ job' = [job EXCEPT
                     ![j].pc = IF SanitizeRaises(job[j].title)
                               THEN "crashed" ELSE "download",
                     ![j].overlap = Holders(j, p, key)]
    /\ UNCHANGED <<cache, IN_MEMORY_CACHE, files, DOWNLOAD_DIR, telegram, lk, lastPub>>
    /\ UNCHANGED admitVars
    /\ UNCHANGED resolveVars

\* await download_file (lines 783-797): the file is written in full, or the
\* transfer fails before the file is opened or after part of it is written.
download_file(j) ==
    /\ job[j].pc = "download"
    /\ \E outcome \in {"ok", "failed_unopened", "failed_partial"} :
          /\ job' = [job EXCEPT
                ![j].pc = IF outcome = "ok" THEN "upload" ELSE "cleanup",
                ![j].did = @ \cup {"download"}]
          /\ files' = IF outcome = "failed_unopened" THEN files
                      ELSE [files EXCEPT ![JobDir(j)] = @ \cup {JobFile(j)}]
    /\ UNCHANGED DOWNLOAD_DIR
    /\ UNCHANGED <<cache, IN_MEMORY_CACHE, PROCESSING_SET, telegram, lk, lastPub>>
    /\ UNCHANGED admitVars
    /\ UNCHANGED resolveVars

\* An upload whose failure is swallowed: the task goes on to save.
upload_to_telegram_swallow(j) ==
    /\ job[j].pc = "upload"
    /\ \/ /\ telegram' = telegram \cup
                 {[file_id |-> j, msg_id |-> j, ytid |-> job[j].ytid,
                   type |-> job[j].type, proc |-> job[j].proc]}
          /\ job' = [job EXCEPT ![j].pc = "save", ![j].did = @ \cup {"upload"}]
       \/ /\ job' = [job EXCEPT ![j].pc = "save"]
          /\ UNCHANGED telegram
    /\ UNCHANGED <<cache, IN_MEMORY_CACHE, PROCESSING_SET, files, DOWNLOAD_DIR, lk, lastPub>>
    /\ UNCHANGED admitVars
    /\ UNCHANGED resolveVars

\* await upload_to_telegram (lines 799-823): a message with a new file_id is
\* in the channel, or the upload raises.
upload_to_telegram(j) ==
    /\ job[j].pc = "upload"
    /\ \/ /\ telegram' = telegram \cup
                 {[file_id |-> j, msg_id |-> j, ytid |-> job[j].ytid,
                   type |-> job[j].type, proc |-> job[j].proc]}
          /\ job' = [job EXCEPT ![j].pc = "save", ![j].did = @ \cup {"upload"}]
       \/ /\ job' = [job EXCEPT ![j].pc = "cleanup"]
          /\ UNCHANGED telegram
    /\ UNCHANGED <<cache, IN_MEMORY_CACHE, PROCESSING_SET, files, DOWNLOAD_DIR, lk, lastPub>>
    /\ UNCHANGED admitVars
    /\ UNCHANGED resolveVars

\* The document the task publishes.
JobDoc(j) == Doc(job[j].ytid, job[j].type, j, j, JobFile(j),
                 job[j].title, job[j].quality)

\* await update_one(..., upsert=True) (lines 715-719), the server's first
\* step: a matching document is overwritten in place; when none matches the
\* server goes on to insert one.  The store call can also raise.
save_cache_record_update(j) ==
    /\ job[j].pc = "save"
    /\ LET found == Matching(job[j].ytid, job[j].type) IN
       \/ /\ found # {}
          /\ \E d \in found :
                cache' = (cache \ {d}) \cup {[JobDoc(j) EXCEPT !._id = d._id]}
          /\ job' = [job EXCEPT ![j].pc = "mem", ![j].did = @ \cup {"record"}]
       \/ /\ found = {}
          /\ job' = [job EXCEPT ![j].pc = "insert"]
          /\ UNCHANGED cache
       \/ /\ job' = [job EXCEPT ![j].pc = "cleanup"]
          /\ UNCHANGED cache
    /\ UNCHANGED <<IN_MEMORY_CACHE, PROCESSING_SET, files, DOWNLOAD_DIR, telegram, lk, lastPub>>
    /\ UNCHANGED admitVars
    /\ UNCHANGED resolveVars

\* The upsert's insert: the index on (ytid, type) of line 1002 is not
\* unique, so the insert succeeds whatever the collection holds by now,
\* unless the store call raises.
save_cache_record_insert(j) ==
    /\ job[j].pc = "insert"
    /\ \/ /\ cache' = cache \cup {[JobDoc(j) EXCEPT !._id = j]}
          /\ job' = [job EXCEPT ![j].pc = "mem", ![j].did = @ \cup {"record"}]
       \/ /\ job' = [job EXCEPT ![j].pc = "cleanup"]
          /\ UNCHANGED cache
    /\ UNCHANGED <<IN_MEMORY_CACHE, PROCESSING_SET, files, DOWNLOAD_DIR, telegram, lk, lastPub>>
    /\ UNCHANGED admitVars
    /\ UNCHANGED resolveVars

\* update_one has returned (lines 721-723): the local map entry is set and
\* save_cache_record returns.
save_cache_record_return(j) ==
    /\ job[j].pc = "mem"
    /\ IN_MEMORY_CACHE' =
          RefreshLocal(IN_MEMORY_CACHE, job[j].proc, JobKey(j), JobDoc(j))
    /\ lastPub' = [lastPub EXCEPT ![job[j].proc][JobKey(j)] = JobDoc(j)]
    /\ job' = [job EXCEPT ![j].pc = "cleanup"]
    /\ UNCHANGED <<cache, PROCESSING_SET, files, DOWNLOAD_DIR, telegram, lk>>
    /\ UNCHANGED admitVars
    /\ UNCHANGED resolveVars

\* The finally block after await session.close() (lines 863-869): the file
\* is removed if it exists and the mark is discarded.
background_finally(j) ==
    /\ job[j].pc = "cleanup"
    /\ files' = [files EXCEPT ![JobDir(j)] = @ \ {JobFile(j)}]
    /\ UNCHANGED DOWNLOAD_DIR
    /\ PROCESSING_SET' = [PROCESSING_SET EXCEPT
                            ![job[j].proc] = Discard(@, JobKey(j))]
    /\ job' = [job EXCEPT ![j].pc = "done"]
    /\ UNCHANGED <<cache, IN_MEMORY_CACHE, telegram, lk, lastPub>>
    /\ UNCHANGED admitVars
    /\ UNCHANGED resolveVars

\* ----------------------------------------------------- quality selection

\* A dict that has no such field.
NoField == "<no field>"
NoDescriptor == -1   \* a format dict without "height" / "bitrate"

DEFAULT_VIDEO_QUALITY == "720"
DEFAULT_AUDIO_QUALITY == "320"

\* x.get(field, 0): the sort key of a format.
SortKey(x, field) == IF x[field] = NoDescriptor THEN 0 ELSE x[field]

\* list.sort(key=lambda x: x.get(field, 0), reverse=True): a stable sort,
\* entries with equal keys keep the order they had.
RECURSIVE sort_reverse(_, _)
sort_reverse(list, field) ==
    IF list = <<>> THEN <<>>
    ELSE LET n == Len(list)
             head == sort_reverse(SubSeq(list, 1, n - 1), field)
             x == list[n]
             k == Cardinality({i \in 1..(n - 1) :
                                  SortKey(head[i], field) >= SortKey(x, field)})
         IN SubSeq(head, 1, k) \o <<x>> \o SubSeq(head, k + 1, n - 1)

\* [f for f in formats if f.get("type") == type]
FormatsOfType(formats, type) == SelectSeq(formats, LAMBDA f : f.type = type)

\* str(first.get(field, default))
DescriptorStr(first, field, default) ==
    IF first[field] = NoDescriptor THEN default ELSE ToString(first[field])

\* The last entry of the sorted list taken instead of the first.
choose_worst_quality(formats, media_type) ==
    LET type == IF media_type = "video" THEN "video" ELSE "audio"
        field == IF media_type = "video" THEN "height" ELSE "bitrate"
        default == IF media_type = "video" THEN DEFAULT_VIDEO_QUALITY
                   ELSE DEFAULT_AUDIO_QUALITY
        sorted == sort_reverse(FormatsOfType(formats, type), field)
    IN IF sorted # <<>> THEN DescriptorStr(sorted[Len(sorted)], field, default)
       ELSE default

\* choose_best_quality(decrypted, media_type), on decrypted.get("formats", []):
\* the branch for "video" reads heights, the other branch reads bitrates.
choose_best_quality(formats, media_type) ==
    IF media_type = "video"
    THEN LET video_formats == sort_reverse(FormatsOfType(formats, "video"), "height")
         IN IF video_formats # <<>>
            THEN DescriptorStr(video_formats[1], "height", DEFAULT_VIDEO_QUALITY)
            ELSE DEFAULT_VIDEO_QUALITY
    ELSE LET audio_formats == sort_reverse(FormatsOfType(formats, "audio"), "bitrate")
         IN IF audio_formats # <<>>
            THEN DescriptorStr(audio_formats[1], "bitrate", DEFAULT_AUDIO_QUALITY)
            ELSE DEFAULT_AUDIO_QUALITY

\* The heights and bitrates a format carries.
Descriptors == {NoDescriptor} \cup {480 * i : i \in 1..MaxDescriptor}

\* The format dicts of a metadata document: video entries with or without a
\* height, audio entries with or without a bitrate, entries of no known type.
Formats ==
    {[type |-> "video", height |-> h, bitrate |-> NoDescriptor] : h \in Descriptors}
    \cup {[type |-> "audio", height |-> NoDescriptor, bitrate |-> b] : b \in Descriptors}
    \cup {[type |-> NoField, height |-> NoDescriptor, bitrate |-> NoDescriptor]}

RECURSIVE ListsUpTo(_, _)
ListsUpTo(S, n) ==
    IF n = 0 THEN {<<>>}
    ELSE LET shorter == ListsUpTo(S, n - 1)
         IN shorter \cup {Append(l, x) : l \in shorter, x \in S}

NoEval == [fn |-> "", formats |-> <<>>, media_type |-> "", result |-> ""]

\* choose_best_quality is applied to the arguments Init drew.
choose_best_quality_eval ==
    /\ pure.fn = "choose_best_quality" /\ pure.result = ""
    /\ pure' = [pure EXCEPT !.result = choose_best_quality(pure.formats, pure.media_type)]
    /\ UNCHANGED req
    /\ UNCHANGED <<admitVars, archiveVars>>

\* ------------------------------------------------------ video identifiers

\* [0-9A-Za-z_-]
IdChars ==
    {"0", "1", "2", "3", "4", "5", "6", "7", "8", "9",
     "A", "B", "C", "D", "E", "F", "G", "H", "I", "J", "K", "L", "M",
     "N", "O", "P", "Q", "R", "S", "T", "U", "V", "W", "X", "Y", "Z",
     "a", "b", "c", "d", "e", "f", "g", "h", "i", "j", "k", "l", "m",
     "n", "o", "p", "q", "r", "s", "t", "u", "v", "w", "x", "y", "z",
     "_", "-"}

\* {11}
TokenLen == 11

\* The literals of YT_RE, each group's alternatives in the order the
\* pattern tries them: https?:// takes the s when it is there.
Schemes == << <<"h", "t", "t", "p", "s", ":", "/", "/">>,
             <<"h", "t", "t", "p", ":", "/", "/">> >>
Www == << <<"w", "w", "w", ".">> >>
Hosts ==
    << <<"y", "o", "u", "t", "u", "b", "e", ".", "c", "o", "m", "/",
         "w", "a", "t", "c", "h", "?", "v", "=">>,
       <<"y", "o", "u", "t", "u", "b", "e", ".", "c", "o", "m", "/",
         "e", "m", "b", "e", "d", "/">>,
       <<"y", "o", "u", "t", "u", "b", "e", ".", "c", "o", "m", "/",
         "s", "h", "o", "r", "t", "s", "/">>,
       <<"y", "o", "u", "t", "u", ".", "b", "e", "/">> >>

\* The literal lit stands in s after the first i characters.
StartsAt(s, i, lit) ==
    /\ i + Len(lit) <= Len(s)
    /\ SubSeq(s, i + 1, i + Len(lit)) = lit

\* (?:a|b|...)? tried after the first i characters: the positions the group
\* can end at, in the order the matcher tries them: each alternative that
\* stands there, then the empty match.
OptEnds(s, i, lits) ==
    LET hit == SelectSeq(lits, LAMBDA lit : StartsAt(s, i, lit))
    IN [k \in 1..Len(hit) |-> i + Len(hit[k])] \o <<i>>

RECURSIVE Flat(_)
Flat(seqs) == IF seqs = <<>> THEN <<>> ELSE Head(seqs) \o Flat(Tail(seqs))

\* The next optional group tried from each end of the groups before it.
Then(ends, s, lits) == Flat([k \in 1..Len(ends) |-> OptEnds(s, ends[k], lits)])

\* The positions the capturing group can start at when the match starts
\* after the first i characters, in backtracking order.
GroupStarts(s, i) == Then(Then(OptEnds(s, i, Schemes), s, Www), s, Hosts)

\* ([0-9A-Za-z_-]{11}) matches after the first j characters.
TokenAt(s, j) ==
    /\ j + TokenLen <= Len(s)
    /\ \A k \in (j + 1)..(j + TokenLen) : s[k] \in IdChars

\* m.group(0) of a match that starts after i characters and whose
\* capturing group starts after j: the whole match.
group0(s, i, j) == SubSeq(s, i + 1, j + TokenLen)

\* m.group(1): the capturing group.
group1(s, i, j) == SubSeq(s, j + 1, j + TokenLen)

\* None
NoVidid == <<>>

\* YT_RE.match at one position: the first way through the optional groups
\* that lets the capturing group match decides m.group(1).
YT_RE_match(s, i) ==
    LET starts == SelectSeq(GroupStarts(s, i), LAMBDA j : TokenAt(s, j))
    IN IF starts = <<>> THEN NoVidid ELSE group1(s, i, starts[1])

\* YT_RE.search(s) scanning from position i: the match at the leftmost
\* position that has one; its group 1, or None.
RECURSIVE search_from(_, _)
search_from(s, i) ==
    IF i > Len(s) THEN NoVidid
    ELSE LET m == YT_RE_match(s, i)
         IN IF m # NoVidid THEN m ELSE search_from(s, i + 1)

YT_RE_search(s) == search_from(s, 0)

\* re.fullmatch(r"[0-9A-Za-z_-]{11}", s)
fullmatch(s) == Len(s) = TokenLen /\ TokenAt(s, 0)

Whitespace == {" "}

\* str.strip(): leading and trailing whitespace is removed.
RECURSIVE lstrip(_)
lstrip(s) ==
    IF s # <<>> /\ Head(s) \in Whitespace THEN lstrip(Tail(s)) ELSE s
RECURSIVE rstrip(_)
rstrip(s) ==
    IF s # <<>> /\ s[Len(s)] \in Whitespace
    THEN rstrip(SubSeq(s, 1, Len(s) - 1)) ELSE s
strip(s) == rstrip(lstrip(s))

\* extract_vidid(inp): the id YT_RE finds, the input itself if it is a bare
\* token, or None.
extract_vidid(inp) ==
    LET m == YT_RE_search(strip(inp))
    IN IF m # NoVidid THEN m
       ELSE IF fullmatch(strip(inp)) THEN strip(inp)
       ELSE NoVidid

\* "https://www.youtube.com/watch?v="
WatchUrl == <<"h", "t", "t", "p", "s", ":", "/", "/", "w", "w", "w", ".">>
            \o Hosts[1]

\* normalize_youtube_input(inp)
normalize_youtube_input(inp) ==
    LET m == YT_RE_search(strip(inp))
    IN IF m # NoVidid THEN WatchUrl \o m
       ELSE IF fullmatch(strip(inp)) THEN WatchUrl \o strip(inp)
       ELSE strip(inp)

\* The inputs the two functions are applied to, each put together from
\* parts: whitespace, a scheme, www., a host and path, a run of id
\* characters, and what follows the run.
Alphabet == <<"a", "Z", "0", "_", "-">>

\* n id characters, no two neighbours equal; k shifts the choice.
Run(n, k) == [i \in 1..n |-> Alphabet[((i + k) % Len(Alphabet)) + 1]]

Range(seq) == {seq[i] : i \in 1..Len(seq)}

\* A URL of another site, and a text in front of the run.
Unrelated ==
    {<<"e", "x", "a", "m", "p", "l", "e", ".", "c", "o", "m", "/">>,
     <<"s", "e", "e", " ">>}

\* A query parameter or whitespace after the run.
Tails == {<<>>, <<"&", "t", "=", "1">>, <<" ">>}

InputParts ==
    [lead : {<<>>, <<" ">>},
     scheme : {<<>>} \cup Range(Schemes),
     www : {<<>>} \cup Range(Www),
     host : {<<>>} \cup Range(Hosts) \cup Unrelated,
     run : {Run(n, k) : n \in (TokenLen - 1)..(TokenLen + MaxExtra), k \in 0..1},
     tail : Tails]

\* The string the parts make.
Text(p) == p.lead \o p.scheme \o p.www \o p.host \o p.run \o p.tail

NotEvaluated == <<"not evaluated">>

\* extract_vidid is applied to the input Init drew.
extract_vidid_eval ==
    /\ pure.fn = "extract_vidid" /\ pure.result = NotEvaluated
    /\ pure' = [pure EXCEPT !.result = extract_vidid(Text(pure.parts))]
    /\ UNCHANGED req
    /\ UNCHANGED <<admitVars, archiveVars>>

\* normalize_youtube_input is applied to the input Init drew.
normalize_youtube_input_eval ==
    /\ pure.fn = "normalize_youtube_input" /\ pure.result = NotEvaluated
    /\ pure' = [pure EXCEPT !.result = normalize_youtube_input(Text(pure.parts))]
    /\ UNCHANGED req
    /\ UNCHANGED <<admitVars, archiveVars>>

\* ------------------------------------------------- decrypt_savetube_data

\* A bytes object is the sequence of its bytes, 0..255.  A base64 text is the
\* sequence of its characters: 0..63 for the characters of the alphabet in
\* their order, Pad for "=", Junk for a character outside the alphabet.
Pad == 64
Junk == 65

\* The result of a step that raised.
Raised == <<-1>>

Min(a, b) == IF a < b THEN a ELSE b

\* base64.b64encode(data)
RECURSIVE b64encode(_)
b64encode(data) ==
    IF data = <<>> THEN <<>>
    ELSE IF Len(data) = 1
    THEN <<data[1] \div 4, (data[1] % 4) * 16, Pad, Pad>>
    ELSE IF Len(data) = 2
    THEN <<data[1] \div 4, ((data[1] % 4) * 16) + (data[2] \div 16),
           (data[2] % 16) * 4, Pad>>
    ELSE <<data[1] \div 4, ((data[1] % 4) * 16) + (data[2] \div 16),
           ((data[2] % 16) * 4) + (data[3] \div 64), data[3] % 64>>
         \o b64encode(SubSeq(data, 4, Len(data)))

\* The bytes of the characters of the alphabet, four characters to three
\* bytes; two or three characters at the end give one or two bytes.
RECURSIVE a2b(_)
a2b(chars) ==
    IF Len(chars) < 2 THEN <<>>
    ELSE IF Len(chars) = 2
    THEN <<(chars[1] * 4) + (chars[2] \div 16)>>
    ELSE IF Len(chars) = 3
    THEN <<(chars[1] * 4) + (chars[2] \div 16),
           ((chars[2] % 16) * 16) + (chars[3] \div 4)>>
    ELSE <<(chars[1] * 4) + (chars[2] \div 16),
           ((chars[2] % 16) * 16) + (chars[3] \div 4),
           ((chars[3] % 4) * 64) + chars[4]>>
         \o a2b(SubSeq(chars, 5, Len(chars)))

\* base64.b64decode(s), validate=False: characters outside the alphabet are
\* discarded; a last group of one character, or one with less padding than
\* it needs, raises binascii.Error.  The "=" stand at the end of the text.
b64decode(s) ==
    LET chars == SelectSeq(s, LAMBDA c : c \in 0..63)
        pads == Len(SelectSeq(s, LAMBDA c : c = Pad))
        last == Len(chars) % 4
    IN IF last = 1 \/ (last = 2 /\ pads < 2) \/ (last = 3 /\ pads < 1)
       THEN Raised
       ELSE a2b(chars)

\* bytes.fromhex("C5D58EF67A7584E4A29F6C35BBC4EB12")
AES_KEY_BYTES ==
    <<197, 213, 142, 246, 122, 117, 132, 228, 162, 159, 108, 53, 187, 196, 235, 18>>

\* AES.block_size, the 16 of raw[:16] and of unpad(decrypted, 16).
BlockSize == 16

RECURSIVE Xor(_, _)
Xor(a, b) ==
    IF a = 0 /\ b = 0 THEN 0
    ELSE ((a + b) % 2) + 2 * Xor(a \div 2, b \div 2)

XorBlock(x, y) == [i \in 1..BlockSize |-> Xor(x[i], y[i])]

\* The block cipher under the key: a bijection on blocks.  The one taken
\* here adds the key to the block byte by byte and rotates the bytes.
EncryptBlock(key, block) ==
    [i \in 1..BlockSize |->
        LET j == IF i = BlockSize THEN 1 ELSE i + 1
        IN (block[j] + key[j]) % 256]
DecryptBlock(key, block) ==
    [i \in 1..BlockSize |->
        LET j == IF i = 1 THEN BlockSize ELSE i - 1
        IN (block[j] + 256 - key[i]) % 256]

\* AES.MODE_CBC, encryption: each block is xored with the ciphertext block
\* before it (the iv for the first) and then encrypted.
RECURSIVE EncryptCBC(_, _, _)
EncryptCBC(key, iv, plaintext) ==
    IF plaintext = <<>> THEN <<>>
    ELSE LET block == EncryptBlock(key, XorBlock(SubSeq(plaintext, 1, BlockSize), iv))
         IN block \o EncryptCBC(key, block,
                                SubSeq(plaintext, BlockSize + 1, Len(plaintext)))

\* cipher.decrypt(ciphertext) of a CBC cipher: each block is decrypted and
\* then xored with the ciphertext block before it (the iv for the first).
RECURSIVE DecryptCBC(_, _, _)
DecryptCBC(key, iv, ciphertext) ==
    IF ciphertext = <<>> THEN <<>>
    ELSE LET block == SubSeq(ciphertext, 1, BlockSize)
         IN XorBlock(DecryptBlock(key, block), iv)
            \o DecryptCBC(key, block,
                          SubSeq(ciphertext, BlockSize + 1, Len(ciphertext)))

\* The ciphertext taken to start at the first byte of raw.
WholeRaw(raw) == raw

\* ciphertext = raw[16:]
Ciphertext(raw) == SubSeq(raw, BlockSize + 1, Len(raw))

\* iv = raw[:16]
Iv(raw) == SubSeq(raw, 1, Min(BlockSize, Len(raw)))

\* Crypto.Util.Padding.pad(data, 16, style='pkcs7')
pad(data) ==
    LET n == BlockSize - (Len(data) % BlockSize)
    IN data \o [i \in 1..n |-> n]

\* unpad(padded, 16, style='pkcs7'): ValueError on an empty input, on a
\* length that is no multiple of the block size, on a last byte that is no
\* padding length, and on padding bytes that differ from it.
unpad(padded) ==
    LET len == Len(padded)
        n == padded[len]
    IN IF len = 0 \/ len % BlockSize # 0 THEN Raised
       ELSE IF n < 1 \/ n > Min(BlockSize, len) THEN Raised
       ELSE IF \E i \in (len - n + 1)..len : padded[i] # n THEN Raised
       ELSE SubSeq(padded, 1, len - n)

\* The JSON documents: {"k": value}, the value a string of letters a.
\* '{"k":"' and '"}' in bytes.
JsonOpen == <<123, 34, 107, 34, 58, 34>>
JsonClose == <<34, 125>>
Letter == 97

\* json.dumps(doc).encode()
dumps(doc) == JsonOpen \o doc.k \o JsonClose

\* json.loads(data.decode()): the document, or JSONDecodeError.
loads(data) ==
    LET len == Len(data)
        n == len - Len(JsonOpen) - Len(JsonClose)
    IN IF /\ n >= 0
          /\ SubSeq(data, 1, Len(JsonOpen)) = JsonOpen
          /\ SubSeq(data, len - Len(JsonClose) + 1, len) = JsonClose
          /\ \A i \in 1..n : data[Len(JsonOpen) + i] = Letter
       THEN [status |-> "returned",
             value |-> [k |-> SubSeq(data, Len(JsonOpen) + 1, Len(JsonOpen) + n)]]
       ELSE [status |-> "raised"]

\* decrypt_savetube_data(b64_encrypted): every exception is logged and
\* raised again.  AES.new raises on an iv of another length than 16,
\* decrypt on a ciphertext that is no multiple of 16 long.
decrypt_savetube_data(b64_encrypted) ==
    LET raw == b64decode(b64_encrypted)
        iv == Iv(raw)
        ciphertext == Ciphertext(raw)
        decrypted == DecryptCBC(AES_KEY_BYTES, iv, ciphertext)
        unpadded == unpad(decrypted)
    IN IF raw = Raised THEN [status |-> "raised"]
       ELSE IF Len(iv) # BlockSize THEN [status |-> "raised"]
       ELSE IF Len(ciphertext) % BlockSize # 0 THEN [status |-> "raised"]
       ELSE IF unpadded = Raised THEN [status |-> "raised"]
       ELSE loads(unpadded)

\* The documents and initialization vectors the function is tried on.
Documents == {[k |-> [i \in 1..n |-> Letter]] : n \in 0..MaxValue}
IvOf(k) == [i \in 1..BlockSize |-> (k * (16 * i + 1)) % 256]
Ivs == {IvOf(k) : k \in 0..MaxIv}

\* What the origin sends for a document: base64 of the iv followed by the
\* CBC encryption of the padded JSON text.
Encrypted(doc, iv) ==
    b64encode(iv \o EncryptCBC(AES_KEY_BYTES, iv, pad(dumps(doc))))

\* The JSON text filled up with zero bytes instead of padded.
ZeroFilled(data) ==
    data \o [i \in 1..(BlockSize - (Len(data) % BlockSize)) |-> 0]

\* The inputs: the encrypted document; the same with a character outside
\* the alphabet put in front; without its last character; with the
\* plaintext not padded; with a plaintext that is not JSON.
InputKinds == {"encrypted", "junk", "cut", "unpadded", "not json"}
DecryptInput(kind, doc, iv) ==
    CASE kind = "encrypted" -> Encrypted(doc, iv)
      [] kind = "junk" -> <<Junk>> \o Encrypted(doc, iv)
      [] kind = "cut" ->
            SubSeq(Encrypted(doc, iv), 1, Len(Encrypted(doc, iv)) - 1)
      [] kind = "unpadded" ->
            b64encode(iv \o EncryptCBC(AES_KEY_BYTES, iv, ZeroFilled(dumps(doc))))
      [] kind = "not json" ->
            b64encode(iv \o EncryptCBC(AES_KEY_BYTES, iv,
                                       pad(JsonOpen \o doc.k)))

\* decrypt_savetube_data is applied to the input Init drew.
decrypt_savetube_data_eval ==
    /\ pure.fn = "decrypt_savetube_data" /\ pure.result.status = "not evaluated"
    /\ pure' = [pure EXCEPT !.result =
                   decrypt_savetube_data(DecryptInput(pure.kind, pure.doc, pure.iv))]
    /\ UNCHANGED req
    /\ UNCHANGED <<admitVars, archiveVars>>

\* ------------------------------------------------ ytmp4 / ytmp3 handlers

\* The url arguments a caller sends: a URL of the video idA, and a text
\* that holds no video id.
Inputs ==
    {<<"h", "t", "t", "p", "s", ":", "/", "/", "y", "o", "u", "t", "u", ".",
       "b", "e", "/">> \o idA,
     <<"n", "o", " ", "v", "i", "d", "e", "o", " ", "i", "d">>}

\* A further url argument: a text around the id characters of idA.
References == Inputs \cup {<<"s", "e", "e", " ">> \o idA}

\* vidid = extract_vidid(url) or extract_vidid(yt_url), with
\* yt_url = normalize_youtube_input(url) (lines 1027-1028).
Vidid(url) ==
    LET vidid == extract_vidid(url)
    IN IF vidid # NoVidid THEN vidid
       ELSE extract_vidid(normalize_youtube_input(url))

\* The quality argument: not given (None), empty, or a value.
NoQuality == "None"
QualityArgs == {NoQuality, "", "480", "144"}

\* quality or choose_best_quality(decrypted, media_type): None and "" are falsy.
SelectedQuality(quality, formats, media_type) ==
    IF quality \in {NoQuality, ""} THEN choose_best_quality(formats, media_type)
    ELSE quality

\* dict.get(field, default) on a field that is a string, null or missing.
Get(value, default) == IF value = NoField THEN default ELSE value

\* The decrypted metadata documents: the title is a string, null or missing.
MetaTitles == {"Title", NullTitle, NoField}
Metadata(titles, formatLists) == [title : titles, formats : formatLists]
NoMetadata == [title |-> "", formats |-> <<>>]

\* The URLs get_telegram_download_url returns for a file_id (lines 874, 885, 889).
FileUrl(file_id) == <<"file", file_id>>
GetFileUrl(file_id) == <<"getFile", file_id>>

NoResponse == [status |-> 0, source |-> "", title |-> "", quality |-> "",
               url |-> NoUrl, file_id |-> 0, msg_id |-> 0]

\* A request that has not arrived.
IdleReq == [pc |-> "idle", proc |-> 0, api_key |-> NoKey, url |-> <<>>,
            type |-> "", quality |-> NoQuality,
            cdn |-> "", hint |-> "", decrypted |-> NoMetadata,
            selected_quality |-> "",
            download_url |-> NoUrl, response |-> NoResponse,
            calls |-> <<>>, archived |-> {}, archiving |-> {}]

\* The tasks that have published a record and ended / that were dispatched
\* and have not ended.
ArchivedJobs == {j \in Jobs : job[j].pc = "done" /\ "record" \in job[j].did}
ArchivingJobs == {j \in Jobs : job[j].pc \in Running \cup {"start"}}

\* Requests are numbered in the order they arrive.
NextReq(r) == \A b \in Reqs : b < r => req[b].pc # "idle"

\* A GET on /ytmp4 (type "video") or /ytmp3 (type "audio") arrives at
\* process p: url, api_key and quality are the query parameters.
ytmp_enter(r, p, type, url, api_key, quality) ==
    /\ req[r].pc = "idle"
    /\ Started(p)
    /\ req' = [req EXCEPT ![r] = [IdleReq EXCEPT
                  !.pc = "call", !.proc = p, !.type = type, !.url = url,
                  !.api_key = api_key, !.quality = quality,
                  !.archived = ArchivedJobs, !.archiving = ArchivingJobs]]
    /\ UNCHANGED pure
    /\ UNCHANGED <<admitVars, archiveVars>>

\* await check_api_key(api_key) (lines 1025, 1106): the handler's first line.
ytmp_check_api_key(r) ==
    /\ req[r].pc = "call"
    /\ check_api_key_enter(r, req[r].api_key)

\* The handler carried on after an HTTPException as after a return.
Returned(c) == cpc[c] \in Settled

\* check_api_key returned: the await of line 1025 raised nothing.
Admitted(c) == cpc[c] = "admitted"

\* The HTTPException check_api_key raised ends the request.
ytmp_rejected(r) ==
    /\ req[r].pc = "call"
    /\ cpc[r] \in {"r401", "r403", "r429"}
    /\ req' = [req EXCEPT ![r].pc = "done",
                          ![r].response = [NoResponse EXCEPT
                              !.status = CASE cpc[r] = "r401" -> 401
                                           [] cpc[r] = "r403" -> 403
                                           [] cpc[r] = "r429" -> 429]]
    /\ UNCHANGED pure
    /\ UNCHANGED <<admitVars, archiveVars>>

\* Lines 1027-1034 and 1108-1115: no video id, the 400 response.
ytmp_invalid(r) ==
    /\ req[r].pc = "call"
    /\ Admitted(r)
    /\ Vidid(req[r].url) = NoVidid
    /\ req' = [req EXCEPT ![r].pc = "done",
                          ![r].response = [NoResponse EXCEPT !.status = 400]]
    /\ UNCHANGED pure
    /\ UNCHANGED <<admitVars, archiveVars>>

\* Lines 1027-1036 and 1108-1117: a video id, await get_cached_file.
ytmp_get_cached_file(r) ==
    /\ req[r].pc = "call"
    /\ Admitted(r)
    /\ Vidid(req[r].url) # NoVidid
    /\ get_cached_file_enter(r, req[r].proc, Vidid(req[r].url), req[r].type)

\* Every lookup said to have found nothing.
CacheHitNever(cached) == FALSE

\* if cached:
CacheHit(cached) == cached # NoDoc

\* get_cached_file has returned (lines 1037-1038 and 1058-1061): on a hit
\* get_file is awaited, otherwise the session is opened and savetube_info
\* awaits get_random_cdn.
ytmp_cached(r) ==
    /\ req[r].pc = "call"
    /\ lk[r].pc = "done"
    /\ req' = [req EXCEPT ![r].pc = IF CacheHit(lk[r].result)
                                    THEN "get_file" ELSE "info_cdn"]
    /\ UNCHANGED pure
    /\ UNCHANGED <<admitVars, archiveVars>>

\* The result dict of a cache hit (lines 1041-1056).
CachedResponse(cached, telegram_url) ==
    [NoResponse EXCEPT !.status = 200, !.source = "telegram_cache",
                       !.title = cached.title, !.quality = cached.quality,
                       !.url = telegram_url, !.file_id = cached.file_id,
                       !.msg_id = cached.msg_id]

\* await pyrogram_client.get_file (lines 872-874): the file URL is returned,
\* or the call raises and the getFile API is asked.
get_telegram_download_url(r) ==
    /\ req[r].pc = "get_file"
    /\ \/ req' = [req EXCEPT
             ![r].pc = "done",
             ![r].calls = Append(@, "get_file"),
             ![r].response = CachedResponse(lk[r].result, FileUrl(lk[r].result.file_id))]
       \/ req' = [req EXCEPT ![r].pc = "get_file_api",
                             ![r].calls = Append(@, "get_file")]
    /\ UNCHANGED pure
    /\ UNCHANGED <<admitVars, archiveVars>>

\* The failure of the fallback ends the request with a 500 response.
get_telegram_download_url_raises(r) ==
    /\ req[r].pc = "get_file_api"
    /\ \/ req' = [req EXCEPT
             ![r].pc = "done",
             ![r].calls = Append(@, "get_file_api"),
             ![r].response = CachedResponse(lk[r].result,
                                            FileUrl(lk[r].result.file_id))]
       \/ req' = [req EXCEPT
             ![r].pc = "done",
             ![r].calls = Append(@, "get_file_api"),
             ![r].response = [NoResponse EXCEPT !.status = 500]]
    /\ UNCHANGED pure
    /\ UNCHANGED <<admitVars, archiveVars>>

\* The fallback (lines 877-889): the API gives the file path, or the getFile
\* URL itself is returned.
get_telegram_download_url_fallback(r) ==
    /\ req[r].pc = "get_file_api"
    /\ \E telegram_url \in {FileUrl(lk[r].result.file_id),
                            GetFileUrl(lk[r].result.file_id)} :
          req' = [req EXCEPT
             ![r].pc = "done",
             ![r].calls = Append(@, "get_file_api"),
             ![r].response = CachedResponse(lk[r].result, telegram_url)]
    /\ UNCHANGED pure
    /\ UNCHANGED <<admitVars, archiveVars>>

\* The hosts get_random_cdn returns: the one the reply names, or the default.
DefaultCdn == "cdn1.savetube.me"
Cdns == {DefaultCdn, "cdn2.savetube.me"}

\* The exception of the GET ends the request with the 500 response.
get_random_cdn_raises(r) ==
    req' = [req EXCEPT ![r].pc = "close",
                       ![r].hint = "failed",
                       ![r].calls = Append(@, "cdn"),
                       ![r].response = [NoResponse EXCEPT !.status = 500]]

\* except Exception: return "cdn1.savetube.me" (lines 635-636): the GET
\* raised, timed out, or its body was no JSON object.
get_random_cdn_except(r) ==
    req' = [req EXCEPT ![r].pc = IF @ = "info_cdn" THEN "info" ELSE "download",
                       ![r].hint = "failed",
                       ![r].cdn = DefaultCdn,
                       ![r].calls = Append(@, "cdn")]

\* await get_random_cdn (lines 630-636), called by savetube_info and by
\* savetube_download: the reply names a host or has no "cdn" field and the
\* default is taken, or the except branch returns the default.  The POST is
\* issued next.
get_random_cdn(r) ==
    /\ req[r].pc \in {"info_cdn", "download_cdn"}
    /\ \/ \E cdn \in Cdns :
             req' = [req EXCEPT
                ![r].pc = IF @ = "info_cdn" THEN "info" ELSE "download",
                ![r].hint = "replied",
                ![r].cdn = cdn,
                ![r].calls = Append(@, "cdn")]
       \/ get_random_cdn_except(r)
    /\ UNCHANGED pure
    /\ UNCHANGED <<admitVars, archiveVars>>

\* The ways the info POST and the download POST fail: the transport raises,
\* the reply has a false status (or no downloadUrl), the payload does not
\* decrypt to a JSON object.
InfoFailures == {"unavailable", "rejected", "decode_failed"}
DownloadFailures == {"unavailable", "rejected"}

\* The failed call made again.
FailedRetry(r, call) ==
    req' = [req EXCEPT ![r].pc = IF call = "info" THEN "info_cdn" ELSE "download_cdn",
                       ![r].cdn = "", ![r].hint = "",
                       ![r].calls = Append(@, call)]

\* The 500 response built and the task created all the same.
FailedThenTask(r, call) ==
    req' = [req EXCEPT ![r].pc = "create_task",
                       ![r].cdn = "", ![r].hint = "",
                       ![r].calls = Append(@, call),
                       ![r].response = [NoResponse EXCEPT !.status = 500]]

\* except Exception (lines 1090-1095 and 1171-1176): the 500 response, then
\* finally awaits session.close().
Failed(r, call) ==
    req' = [req EXCEPT ![r].pc = "close",
                       ![r].cdn = "", ![r].hint = "",
                       ![r].calls = Append(@, call),
                       ![r].response = [NoResponse EXCEPT !.status = 500]]

\* The info POST of savetube_info completes (lines 642-650), then lines
\* 1062-1063: the quality is selected and savetube_download awaits
\* get_random_cdn.
savetube_info(r, outcome, decrypted) ==
    /\ req[r].pc = "info"
    /\ IF outcome \in InfoFailures
       THEN Failed(r, "info")
       ELSE req' = [req EXCEPT
               ![r].pc = "download_cdn",
               ![r].cdn = "", ![r].hint = "",
               ![r].calls = Append(@, "info"),
               ![r].decrypted = decrypted,
               ![r].selected_quality =
                   SelectedQuality(req[r].quality, decrypted.formats, req[r].type)]
    /\ UNCHANGED pure
    /\ UNCHANGED <<admitVars, archiveVars>>

\* The download POST of savetube_download completes (lines 663-671), then
\* lines 1065-1074: response_data is built.
savetube_download(r, outcome, download_url) ==
    /\ req[r].pc = "download"
    /\ IF outcome \in DownloadFailures
       THEN Failed(r, "download")
       ELSE req' = [req EXCEPT
               ![r].pc = "create_task",
               ![r].cdn = "", ![r].hint = "",
               ![r].calls = Append(@, "download"),
               ![r].download_url = download_url,
               ![r].response = [NoResponse EXCEPT
                   !.status = 200, !.source = "savetube",
                   !.title = Get(req[r].decrypted.title, "Unknown"),
                   !.quality = req[r].selected_quality,
                   !.url = download_url]]
    /\ UNCHANGED pure
    /\ UNCHANGED <<admitVars, archiveVars>>

\* The task given the other URL savetube_download can return.
OtherUrl(download_url) == CHOOSE u \in DownloadUrls : u # download_url

\* download_url as passed to background_download_and_upload (line 1078).
TaskUrl(download_url) == download_url

\* asyncio.create_task(...) of lines 1076-1086 and 1157-1167: the task gets
\* the id, the type, download_url, decrypted.get("title", vidid) and
\* selected_quality.
ytmp_create_task(r) ==
    /\ req[r].pc = "create_task"
    /\ create_task(r, req[r].proc, Vidid(req[r].url), req[r].type,
                   TaskUrl(req[r].download_url),
                   Get(req[r].decrypted.title, Vidid(req[r].url)),
                   req[r].selected_quality)

\* finally: await session.close() (lines 1096-1097), then the response
\* built at line 1065 or 1092 is returned.
ytmp_close(r) ==
    /\ \/ req[r].pc = "close"
       \/ req[r].pc = "create_task" /\ job[r].pc # "idle"
    /\ req' = [req EXCEPT ![r].pc = "done"]
    /\ UNCHANGED pure
    /\ UNCHANGED <<admitVars, archiveVars>>

\* ------------------------------------------------------- specifications

\* The state after startup: a key created with one of the given limits and
\* expiry days, n calls of check_api_key not yet made.
InitCalls(n, limits, expiries) ==
    /\ clock = 0
    /\ \E limit \in limits, expiry \in expiries :
          apikeys = [k \in KnownKeys |-> create_api_key(limit, expiry)]
    /\ cpc = [c \in 1..n |-> "idle"]
    /\ ckey = [c \in 1..n |-> NoKey]
    /\ crec = [c \in 1..n |-> NoRecord]
    /\ ctoday = [c \in 1..n |-> NoDate]
    /\ cwrites = [c \in 1..n |-> {}]
    /\ cseen = [c \in 1..n |-> -1]
    /\ cafter = [c \in 1..n |-> -1]

\* DOWNLOAD_DIR = os.getenv("DOWNLOAD_DIR", "./downloads"): every process is
\* started with a directory of its own, or all of them are started with the
\* same value from the same working directory.
OwnDirs == [p \in Procs |-> p]
OneDir == [p \in Procs |-> 1]

\* The module-level state of every process at startup.
InitProcsIn(dirs, nj, nl) ==
    /\ DOWNLOAD_DIR \in dirs
    /\ IN_MEMORY_CACHE = [p \in Procs |-> [key \in CacheKeys |-> NoDoc]]
    /\ PROCESSING_SET = [p \in Procs |-> {}]
    /\ files = [p \in Procs |-> {}]
    /\ job = [j \in 1..nj |-> IdleJob]
    /\ lk = [l \in 1..nl |->
               [pc |-> "idle", proc |-> 0, ytid |-> <<>>, type |-> "",
                result |-> NoDoc, queried |-> FALSE, after |-> NoDoc]]
    /\ lastPub = [p \in Procs |-> [key \in CacheKeys |-> NoDoc]]

InitProcs(nj, nl) == InitProcsIn({OwnDirs}, nj, nl)

\* A document an earlier run of the service left in the cache collection,
\* and its message in the channel.
StoredDoc ==
    [Doc(idA, "video", StoredId, StoredId, FileName(idA, "video", "720"),
         "Title", "720") EXCEPT !._id = StoredId]
StoredMessage ==
    [file_id |-> StoredId, msg_id |-> StoredId, ytid |-> idA,
     type |-> "video", proc |-> 0]

\* The startup state of every process: empty module-level IN_MEMORY_CACHE
\* and PROCESSING_SET, nj tasks and nl lookups not yet made; the cache
\* collection holds what earlier runs stored.
InitTasksOn(stored, messages, nj, nl) ==
    /\ cache = stored
    /\ telegram = messages
    /\ InitProcs(nj, nl)

\* The same on an empty cache collection.
InitTasks(nj, nl) == InitTasksOn({}, {}, nj, nl)

AllLimits == 0..MaxLimit
AllExpiries == {NoExpiry} \cup 0..(MaxDay - 1)

\* n requests that have not arrived, no pure function under evaluation.
InitReqs(n) ==
    /\ req = [r \in 1..n |-> IdleReq]
    /\ pure = NoEval

InitAdmit ==
    InitCalls(NCalls, AllLimits, AllExpiries) /\ InitTasks(0, 0) /\ InitReqs(0)

InitAdmitSeq ==
    InitCalls(NSeqCalls, AllLimits, AllExpiries) /\ InitTasks(0, 0) /\ InitReqs(0)

InitArchive ==
    InitCalls(0, {MaxLimit}, {NoExpiry}) /\ InitTasks(NJobs, 0) /\ InitReqs(0)

InitIndex ==
    /\ InitCalls(0, {MaxLimit}, {NoExpiry})
    /\ InitTasks(NIndexJobs, NLookups)
    /\ InitReqs(0)

\* The tasks of every process interleave at their awaits.
NextArchive ==
    \/ \E j \in Jobs, p \in Procs, ytid \in Ids, type \in Kinds,
          title \in Titles, quality \in Qualities :
             NextJob(j) /\ create_task(j, p, ytid, type, AnyUrl, title, quality)
    \/ \E j \in Jobs : background_start(j)
    \/ \E j \in Jobs : download_file(j)
    \/ \E j \in Jobs : upload_to_telegram(j)
    \/ \E j \in Jobs : save_cache_record_update(j)
    \/ \E j \in Jobs : save_cache_record_insert(j)
    \/ \E j \in Jobs : save_cache_record_return(j)
    \/ \E j \in Jobs : background_finally(j)

SpecArchive == InitArchive /\ [][NextArchive]_vars

\* The same tasks, the processes started with directories of their own or
\* all with one directory.
InitFiles ==
    /\ InitCalls(0, {MaxLimit}, {NoExpiry})
    /\ cache = {}
    /\ telegram = {}
    /\ InitProcsIn({OwnDirs, OneDir}, NJobs, 0)
    /\ InitReqs(0)

SpecFiles == InitFiles /\ [][NextArchive]_vars

\* Tasks and lookups of every process interleave at their awaits.
NextIndex ==
    \/ \E j \in Jobs, p \in Procs, ytid \in Ids, type \in Kinds,
          title \in Titles, quality \in Qualities :
             NextJob(j) /\ create_task(j, p, ytid, type, AnyUrl, title, quality)
    \/ \E j \in Jobs : background_start(j)
    \/ \E j \in Jobs : download_file(j)
    \/ \E j \in Jobs : upload_to_telegram(j)
    \/ \E j \in Jobs : save_cache_record_update(j)
    \/ \E j \in Jobs : save_cache_record_insert(j)
    \/ \E j \in Jobs : save_cache_record_return(j)
    \/ \E j \in Jobs : background_finally(j)
    \/ \E l \in Lookups, p \in Procs, ytid \in Ids, type \in Kinds :
             NextLookup(l) /\ get_cached_file_enter(l, p, ytid, type)
    \/ \E l \in Lookups : get_cached_file_find(l)

SpecIndex == InitIndex /\ [][NextIndex]_vars

\* Requests are served concurrently: calls interleave at their awaits.
NextAdmit ==
    \/ \E c \in Calls, key \in Keys : NextCall(c) /\ check_api_key_enter(c, key)
    \/ \E c \in Calls : check_api_key_find(c)
    \/ \E c \in Calls : check_api_key_check(c)
    \/ \E c \in Calls : check_api_key_reset(c)
    \/ \E c \in Calls : check_api_key_inc(c)
    \/ Tick

SpecAdmit == InitAdmit /\ [][NextAdmit]_vars

\* One call at a time: a call is entered only when every other has settled.
NoneRunning == \A c \in Calls : cpc[c] \in Settled \cup {"idle"}

NextAdmitSeq ==
    \/ \E c \in Calls, key \in Keys :
          NoneRunning /\ NextCall(c) /\ check_api_key_enter(c, key)
    \/ \E c \in Calls : check_api_key_find(c)
    \/ \E c \in Calls : check_api_key_check(c)
    \/ \E c \in Calls : check_api_key_reset(c)
    \/ \E c \in Calls : check_api_key_inc(c)
    \/ Tick

SpecAdmitSeq == InitAdmitSeq /\ [][NextAdmitSeq]_vars

\* Every formats list and both media types, for choose_best_quality.
InitSelect ==
    /\ InitCalls(0, {MaxLimit}, {NoExpiry})
    /\ InitTasks(0, 0)
    /\ req = <<>>
    /\ \E formats \in ListsUpTo(Formats, MaxFormats), media_type \in Kinds :
          pure = [NoEval EXCEPT !.fn = "choose_best_quality",
                                !.formats = formats, !.media_type = media_type]

NextSelect == choose_best_quality_eval

SpecSelect == InitSelect /\ [][NextSelect]_vars

\* Every input put together from the parts, for extract_vidid and
\* normalize_youtube_input.
InitNormalize ==
    /\ InitCalls(0, {MaxLimit}, {NoExpiry})
    /\ InitTasks(0, 0)
    /\ req = <<>>
    /\ \E fn \in {"extract_vidid", "normalize_youtube_input"}, parts \in InputParts :
          pure = [fn |-> fn, parts |-> parts, result |-> NotEvaluated]

NextNormalize ==
    \/ extract_vidid_eval
    \/ normalize_youtube_input_eval

SpecNormalize == InitNormalize /\ [][NextNormalize]_vars

\* Every document under every initialization vector, as the origin sends it
\* and damaged, for decrypt_savetube_data.
InitDecrypt ==
    /\ InitCalls(0, {MaxLimit}, {NoExpiry})
    /\ InitTasks(0, 0)
    /\ req = <<>>
    /\ \E kind \in InputKinds, doc \in Documents, iv \in Ivs :
          pure = [fn |-> "decrypt_savetube_data", kind |-> kind, doc |-> doc,
                  iv |-> iv, result |-> [status |-> "not evaluated"]]

NextDecrypt == decrypt_savetube_data_eval

SpecDecrypt == InitDecrypt /\ [][NextDecrypt]_vars

\* One request at a time: a stored key with or without quota and expiry
\* date, a cache collection with or without a document.
InitRequest ==
    /\ InitCalls(NRequests, {0, 1}, {NoExpiry, 0})
    /\ \/ InitTasksOn({}, {}, NRequests, NRequests)
       \/ InitTasksOn({StoredDoc}, {StoredMessage}, NRequests, NRequests)
    /\ InitReqs(NRequests)

\* The steps of the tasks.
TaskSteps ==
    \/ \E j \in Jobs : background_start(j)
    \/ \E j \in Jobs : download_file(j)
    \/ \E j \in Jobs : upload_to_telegram(j)
    \/ \E j \in Jobs : save_cache_record_update(j)
    \/ \E j \in Jobs : save_cache_record_insert(j)
    \/ \E j \in Jobs : save_cache_record_return(j)
    \/ \E j \in Jobs : background_finally(j)

\* The steps of the handlers and of the calls they await, but for the
\* arrival and the replies of the origin; a request's call, lookup and task
\* carry the request's number.
HandlerSteps ==
    \/ \E r \in Reqs : ytmp_check_api_key(r)
    \/ \E c \in Calls : check_api_key_find(c)
    \/ \E c \in Calls : check_api_key_check(c)
    \/ \E c \in Calls : check_api_key_reset(c)
    \/ \E c \in Calls : check_api_key_inc(c)
    \/ \E r \in Reqs : ytmp_rejected(r)
    \/ \E r \in Reqs : ytmp_invalid(r)
    \/ \E r \in Reqs : ytmp_get_cached_file(r)
    \/ \E l \in Lookups : get_cached_file_find(l)
    \/ \E r \in Reqs : ytmp_cached(r)
    \/ \E r \in Reqs : get_telegram_download_url(r)
    \/ \E r \in Reqs : get_telegram_download_url_fallback(r)
    \/ \E r \in Reqs : get_random_cdn(r)
    \/ \E r \in Reqs : ytmp_create_task(r)
    \/ \E r \in Reqs : ytmp_close(r)

\* get_cached_file invocations beside one task, on a cache collection with
\* or without a document.
InitRead ==
    /\ InitCalls(0, {MaxLimit}, {NoExpiry})
    /\ \/ InitTasksOn({}, {}, 1, NReads)
       \/ InitTasksOn({StoredDoc}, {StoredMessage}, 1, NReads)
    /\ InitReqs(0)

NextRead ==
    \/ \E j \in Jobs, p \in Procs, ytid \in Ids, type \in Kinds :
             NextJob(j) /\ create_task(j, p, ytid, type, AnyUrl, "Title", "720")
    \/ TaskSteps
    \/ \E l \in Lookups, p \in Procs, ytid \in Ids, type \in Kinds :
             NextLookup(l) /\ get_cached_file_enter(l, p, ytid, type)
    \/ \E l \in Lookups : get_cached_file_find(l)

SpecRead == InitRead /\ [][NextRead]_vars

\* Two tasks and one get_cached_file invocation on the pairs of two videos
\* and both kinds.
InitIsolate ==
    /\ InitCalls(0, {MaxLimit}, {NoExpiry})
    /\ InitTasks(2, 1)
    /\ InitReqs(0)

NextIsolate ==
    \/ \E j \in Jobs, p \in Procs, ytid \in AllIds, type \in Kinds :
             NextJob(j) /\ create_task(j, p, ytid, type, AnyUrl, "Title", "720")
    \/ TaskSteps
    \/ \E l \in Lookups, p \in Procs, ytid \in AllIds, type \in Kinds :
             NextLookup(l) /\ get_cached_file_enter(l, p, ytid, type)
    \/ \E l \in Lookups : get_cached_file_find(l)

SpecIsolate == InitIsolate /\ [][NextIsolate]_vars

\* No request is being served and no task runs.
Quiet ==
    /\ \A r \in Reqs : req[r].pc \in {"idle", "done"}
    /\ \A j \in Jobs : job[j].pc \notin Running \cup {"start"}

\* The formats lists of the metadata documents.
RequestFormats ==
    {<<>>,
     <<[type |-> "video", height |-> 480, bitrate |-> NoDescriptor]>>,
     <<[type |-> "audio", height |-> NoDescriptor, bitrate |-> 480]>>,
     <<[type |-> "video", height |-> 480, bitrate |-> NoDescriptor],
       [type |-> "video", height |-> 960, bitrate |-> NoDescriptor],
       [type |-> "audio", height |-> NoDescriptor, bitrate |-> 960]>>}

\* One request at a time, with a stored key and every quality argument: a
\* request arrives when every earlier one has been answered and no task runs.
NextQuality ==
    \/ \E r \in Reqs, p \in Procs, type \in Kinds, url \in Inputs,
          api_key \in KnownKeys, quality \in QualityArgs :
             Quiet /\ NextReq(r) /\ ytmp_enter(r, p, type, url, api_key, quality)
    \/ \E r \in Reqs, outcome \in InfoFailures \cup {"ok"},
          decrypted \in Metadata({"Title"}, RequestFormats) :
             savetube_info(r, outcome, decrypted)
    \/ \E r \in Reqs, outcome \in DownloadFailures \cup {"ok"} :
             savetube_download(r, outcome, AnyUrl)
    \/ HandlerSteps
    \/ TaskSteps

SpecQuality == InitRequest /\ [][NextQuality]_vars

\* One request at a time, with every key and no quality argument; days pass
\* between requests.
NextRequest ==
    \/ \E r \in Reqs, p \in Procs, type \in Kinds, url \in Inputs,
          api_key \in Keys :
             Quiet /\ NextReq(r) /\ ytmp_enter(r, p, type, url, api_key, NoQuality)
    \/ \E r \in Reqs, outcome \in InfoFailures \cup {"ok"},
          decrypted \in Metadata({"Title"}, {<<>>}) :
             savetube_info(r, outcome, decrypted)
    \/ \E r \in Reqs, outcome \in DownloadFailures \cup {"ok"},
          download_url \in DownloadUrls :
             savetube_download(r, outcome, download_url)
    \/ HandlerSteps
    \/ TaskSteps
    \/ Quiet /\ Tick

SpecRequest == InitRequest /\ [][NextRequest]_vars

\* Requests with a stored key, one at a time: the quota is 1 or MaxLimit.
InitCount ==
    /\ InitCalls(NCounted, {1, MaxLimit}, {NoExpiry})
    /\ \/ InitTasksOn({}, {}, NCounted, NCounted)
       \/ InitTasksOn({StoredDoc}, {StoredMessage}, NCounted, NCounted)
    /\ InitReqs(NCounted)

NextCount ==
    \/ \E r \in Reqs, p \in Procs, url \in Inputs, api_key \in KnownKeys :
             Quiet /\ NextReq(r) /\ ytmp_enter(r, p, "video", url, api_key, NoQuality)
    \/ \E r \in Reqs, outcome \in InfoFailures \cup {"ok"},
          decrypted \in Metadata({"Title"}, {<<>>}) :
             savetube_info(r, outcome, decrypted)
    \/ \E r \in Reqs, outcome \in DownloadFailures \cup {"ok"} :
             savetube_download(r, outcome, AnyUrl)
    \/ HandlerSteps
    \/ TaskSteps
    \/ Quiet /\ Tick

SpecCount == InitCount /\ [][NextCount]_vars

\* As NextRequest, the url argument drawn from References.
NextReference ==
    \/ \E r \in Reqs, p \in Procs, type \in Kinds, url \in References,
          api_key \in Keys :
             Quiet /\ NextReq(r) /\ ytmp_enter(r, p, type, url, api_key, NoQuality)
    \/ \E r \in Reqs, outcome \in InfoFailures \cup {"ok"},
          decrypted \in Metadata({"Title"}, {<<>>}) :
             savetube_info(r, outcome, decrypted)
    \/ \E r \in Reqs, outcome \in DownloadFailures \cup {"ok"} :
             savetube_download(r, outcome, AnyUrl)
    \/ HandlerSteps
    \/ TaskSteps
    \/ Quiet /\ Tick

SpecReference == InitRequest /\ [][NextReference]_vars

\* Requests on /ytmp4; the stored key has a quota that admits them all.
InitResolve ==
    /\ InitCalls(NResolves, {NResolves}, {NoExpiry})
    /\ InitTasks(NResolves, NResolves)
    /\ InitReqs(NResolves)

\* Requests are served concurrently: handlers and tasks interleave at their
\* awaits.
NextResolve ==
    \/ \E r \in Reqs, p \in Procs, url \in Inputs, api_key \in {NoKey} \cup KnownKeys :
          NextReq(r) /\ ytmp_enter(r, p, "video", url, api_key, NoQuality)
    \/ \E r \in Reqs, outcome \in InfoFailures \cup {"ok"},
          decrypted \in Metadata(MetaTitles, {<<>>}) :
             savetube_info(r, outcome, decrypted)
    \/ \E r \in Reqs, outcome \in DownloadFailures \cup {"ok"},
          download_url \in DownloadUrls :
             savetube_download(r, outcome, download_url)
    \/ HandlerSteps
    \/ TaskSteps

SpecResolve == InitResolve /\ [][NextResolve]_vars

\* ------------------------------------------------------------------ claims

\* The calls on key k that reached the quota test with canonical date d.
CountedCalls(k, d) ==
    {c \in Calls : ckey[c] = k /\ ctoday[c] = d /\ cpc[c] \in {"admitted", "r429"}}

AdmittedCalls(k, d) == {c \in CountedCalls(k, d) : cpc[c] = "admitted"}

\* C4: calls made one after the other on one token within one canonical
\* day: with daily quota N exactly the first N are admitted, every later one
\* is rejected with 429, and the rejected call leaves the stored counter at N,
\* the value it had after the N-th admitted call.
C4_FirstNAdmitted ==
    \A c \in Calls :
        cpc[c] \in {"admitted", "r429"} =>
            LET k == ckey[c]
                N == apikeys[k].daily_limit
                before == {b \in CountedCalls(k, ctoday[c]) : b < c}
            IN /\ (cpc[c] = "admitted") <=> (Cardinality(before) < N)
               /\ cpc[c] = "admitted" => cafter[c] = Cardinality(before) + 1
               /\ cpc[c] = "r429" =>
                     /\ cafter[c] = N
                     /\ "inc" \notin cwrites[c]
                     /\ \A b \in before :
                           cpc[b] = "admitted" /\ Cardinality({a \in before : a < b}) = N - 1
                              => cafter[b] = cafter[c]

\* C4 witness: quota 2, two calls admitted and the third of that day rejected.
C4_Witness ==
    \E c \in Calls :
        /\ cpc[c] = "r429"
        /\ apikeys[ckey[c]].daily_limit = 2
        /\ Cardinality({b \in AdmittedCalls(ckey[c], ctoday[c]) : b < c}) = 2

\* C5: in any interleaving of calls on one token, neither the stored counter
\* nor the number of calls admitted with one canonical date exceeds the
\* daily quota.
C5_NeverOverQuota ==
    \A k \in KnownKeys :
        /\ apikeys[k].used_today <= apikeys[k].daily_limit
        /\ \A d \in Days :
              Cardinality(AdmittedCalls(k, d)) <= apikeys[k].daily_limit

\* C6: a call that finds a last-use date other than today's resets the
\* counter to 0 and the date to today before the quota test, tests the quota
\* on 0, and when admitted leaves the stored counter at 1.
C6_Rollover ==
    \A c \in Calls :
        cpc[c] \in {"reset", "inc", "admitted", "r429"} =>
            LET k == ckey[c]
                rolled == crec[c].last_used_date # ctoday[c]
            IN /\ cpc[c] # "reset" => (rolled <=> "reset" \in cwrites[c])
               /\ rolled /\ cpc[c] # "reset" => cseen[c] = 0
               /\ rolled /\ cpc[c] = "inc" =>
                     /\ apikeys[k].used_today = 0
                     /\ apikeys[k].last_used_date = ctoday[c]
               /\ rolled /\ cpc[c] = "admitted" => cafter[c] = 1
               /\ rolled /\ cpc[c] = "r429" => cafter[c] = 0

\* C6 witness: the counter reached the quota on one day, and the first call
\* of the next day was admitted after a reset.
C6_Witness ==
    \E b, c \in Calls :
        /\ cpc[b] = "admitted" /\ cpc[c] = "admitted"
        /\ ckey[b] = ckey[c]
        /\ ctoday[b] < ctoday[c]
        /\ cafter[b] = apikeys[ckey[b]].daily_limit
        /\ "reset" \in cwrites[c]
        /\ apikeys[ckey[c]].used_today = 1

\* C7: when every call on a token has settled and all of them computed the
\* same canonical date, the stored counter equals the number of calls
\* admitted: no reset came after an increment of that day.
C7_ResetOncePerDay ==
    \A k \in KnownKeys, d \in Days :
        /\ \A c \in Calls : cpc[c] \in Settled \cup {"idle"}
        /\ \A c \in Calls : ckey[c] = k /\ ctoday[c] # NoDate => ctoday[c] = d
        /\ apikeys[k].last_used_date = d
        => apikeys[k].used_today = Cardinality(AdmittedCalls(k, d))

\* C8: a call rejected with 401 or 403 has issued no store update; a call
\* rejected with 429 has issued no increment, and a reset only when the
\* last-use date it read was not today's.
C8_RejectionsWriteNothing ==
    \A c \in Calls :
        /\ cpc[c] \in {"r401", "r403"} => cwrites[c] = {}
        /\ cpc[c] = "r429" =>
              /\ "inc" \notin cwrites[c]
              /\ "reset" \in cwrites[c] => crec[c].last_used_date # ctoday[c]

\* C8 witness: an expired token with a stale last-use date was rejected with
\* its record left as it was, and a 429 came after a day-rollover reset.
C8_Witness ==
    \E b, c \in Calls :
        /\ cpc[b] = "r429" /\ cwrites[b] = {"reset"}
        /\ cpc[c] = "r403" /\ cwrites[c] = {}
        /\ crec[c].last_used_date # clock
        /\ apikeys[ckey[c]] = crec[c]

\* The tasks of process p that are between check-and-mark and cleanup for key.
InFlight(p, key) ==
    {j \in Jobs : /\ job[j].pc \in Running \cup {"crashed"}
                  /\ job[j].proc = p
                  /\ JobKey(j) = key}

\* C1: in every interleaving of the tasks of one process, at most one task
\* per cache_key is between its check-and-mark and its cleanup; a task that
\* starts while another holds the key is the one that returns at once, and it
\* has downloaded, uploaded and written nothing.
C1_SingleFlight ==
    /\ \A p \in Procs, key \in CacheKeys : Cardinality(InFlight(p, key)) <= 1
    /\ \A j \in Jobs :
          /\ job[j].pc \notin {"idle", "start"} =>
                (job[j].pc = "skipped" <=> job[j].overlap # {})
          /\ job[j].pc = "skipped" =>
                /\ job[j].did = {}
                /\ \A m \in telegram : m.file_id # j
                /\ \A d \in cache : d.file_id # j

\* C1 witness: a task was skipped while another task of its process was
\* in flight for the same key.
C1_Witness ==
    \E i, j \in Jobs :
        /\ job[j].pc = "skipped"
        /\ i \in job[j].overlap
        /\ job[i].pc \in Running

\* C2: two tasks for one key in one process, the second started while the
\* first was in flight, the first successful: once both have settled there
\* is exactly one upload and one record write between them, and the key is
\* not in PROCESSING_SET unless a third task holds it.
C2_OneUploadOneWrite ==
    \A i, j \in Jobs :
        /\ i \in job[j].overlap
        /\ job[i].pc = "done" /\ "record" \in job[i].did
        /\ job[j].pc \in {"done", "skipped"}
        => /\ Cardinality({m \in telegram : m.file_id \in {i, j}}) = 1
           /\ Cardinality({x \in {i, j} : "record" \in job[x].did}) = 1
           /\ InFlight(job[i].proc, JobKey(i)) = {}
                 => JobKey(i) \notin PROCESSING_SET[job[i].proc]

\* C2 witness: the first task published, the second was dropped, both are over.
C2_Witness ==
    \E i, j \in Jobs :
        /\ i \in job[j].overlap
        /\ job[i].pc = "done" /\ "record" \in job[i].did
        /\ job[j].pc = "skipped"
        /\ JobKey(i) \notin PROCESSING_SET[job[i].proc]

\* C3: a task that marked its key and is over has been through its cleanup:
\* unless another task holds the key, the key is not in PROCESSING_SET and
\* the temporary file does not exist.
C3_GuaranteedRelease ==
    \A j \in Jobs :
        /\ job[j].pc \in {"done", "crashed"}
        /\ InFlight(job[j].proc, JobKey(j)) \ {j} = {}
        => /\ JobKey(j) \notin PROCESSING_SET[job[j].proc]
           /\ JobFile(j) \notin files[JobDir(j)]

\* C9: a get_cached_file call entered right after save_cache_record returned
\* for the same key in the same process returns the document that was
\* saved, and issues no find_one.
C9_LookupAfterPublish ==
    \A l \in Lookups :
        lk[l].pc # "idle" /\ lk[l].after # NoDoc =>
            /\ lk[l].pc = "done"
            /\ lk[l].result = lk[l].after
            /\ ~lk[l].queried

\* C9 witness: such a lookup has returned the document a task published.
C9_Witness ==
    \E l \in Lookups, j \in Jobs :
        /\ lk[l].pc = "done"
        /\ job[j].pc \in {"cleanup", "done"} /\ "record" \in job[j].did
        /\ lk[l].after = JobDoc(j)
        /\ lk[l].result = JobDoc(j)

\* C10: the cache collection never holds two documents for one
\* (ytid, type) pair.
C10_OneRecordPerPair ==
    \A d1, d2 \in cache :
        d1.ytid = d2.ytid /\ d1.type = d2.type => d1 = d2

\* The calls request r has made to the origin and to the Blob Store.
CallsOf(r) == {req[r].calls[i] : i \in DOMAIN req[r].calls}
OriginCalls == {"cdn", "info", "download"}
BlobCalls == {"get_file", "get_file_api"}

\* C11: a request whose get_cached_file returned a document makes no
\* get_random_cdn, info or download call and creates no task, and its
\* result has source "telegram_cache".
C11_HitNeverCallsOrigin ==
    \A r \in Reqs :
        lk[r].pc = "done" /\ lk[r].result # NoDoc =>
            /\ CallsOf(r) \cap OriginCalls = {}
            /\ job[r].pc = "idle"
            /\ req[r].pc \notin {"info_cdn", "info", "download_cdn", "download",
                                 "create_task", "close"}
            /\ req[r].pc = "done" =>
                  /\ req[r].response.status = 200
                  /\ req[r].response.source = "telegram_cache"

\* C11 witness: a request answered from the stored document.
C11_Witness ==
    \E r \in Reqs :
        /\ req[r].pc = "done"
        /\ lk[r].result = StoredDoc
        /\ req[r].response.source = "telegram_cache"
        /\ req[r].response.file_id = StoredDoc.file_id

\* Request r has returned the result of the origin path.
OriginServed(r) ==
    /\ req[r].pc = "done"
    /\ req[r].response.status = 200
    /\ req[r].response.source = "savetube"

\* C12: a request on the origin path returns without waiting for its task:
\* when it has returned, the task exists, at whatever position, and was
\* given the URL that is in the response.
C12_ResponseBeforeArchival ==
    \A r \in Reqs :
        /\ OriginServed(r) =>
              /\ job[r].pc # "idle"
              /\ job[r].download_url = req[r].response.url
              /\ job[r].ytid = lk[r].ytid /\ job[r].type = req[r].type
        /\ req[r].pc = "create_task" /\ job[r].pc # "idle" => ENABLED ytmp_close(r)

\* C12 witness: the response is out while the task is between its download
\* and its upload.
C12_Witness ==
    \E r \in Reqs :
        /\ OriginServed(r)
        /\ job[r].pc = "upload"
        /\ job[r].download_url = req[r].response.url

\* The upload of task j is in the channel.
Uploaded(j) == \E m \in telegram : m.file_id = j

\* Requests b and r name the same (ytid, type) pair.
SamePair(b, r) ==
    /\ Vidid(req[b].url) = Vidid(req[r].url)
    /\ req[b].type = req[r].type

\* C13: a request that arrives while the task another request created for
\* the same pair has not ended is answered from the origin, and the channel
\* never holds an upload of its task beside the upload of that first task.
C13_NoSecondUpload ==
    \A b, r \in Reqs :
        b # r /\ b \in req[r].archiving /\ SamePair(b, r) =>
            /\ req[r].pc = "done" /\ req[r].response.status = 200
                  => req[r].response.source = "savetube"
            /\ ~(Uploaded(b) /\ Uploaded(r))

\* C14: a request that arrives after the task of an origin-served request
\* for the same pair has saved its record and ended is answered with
\* source "telegram_cache" and with the title of that origin-served response.
C14_CachedTitle ==
    \A b, r \in Reqs :
        /\ b \in req[r].archived
        /\ OriginServed(b) /\ SamePair(b, r)
        /\ req[r].pc = "done"
        => /\ req[r].response.status = 200
           /\ req[r].response.source = "telegram_cache"
           /\ req[r].response.title = req[b].response.title

\* The statuses of a request that failed admission or named no video.
FailFast == {401, 403, 429, 400}

\* C15: a request rejected by check_api_key (401, 403, 429) or for its url
\* (400) has made no call to the origin or to Telegram, no get_cached_file
\* call, and has created no task.
C15_FailFast ==
    \A r \in Reqs :
        \/ cpc[r] \in {"r401", "r403", "r429"}
        \/ req[r].pc = "done" /\ req[r].response.status \in FailFast
        => /\ req[r].calls = <<>>
           /\ lk[r].pc = "idle"
           /\ job[r].pc = "idle"
           /\ req[r].pc \in {"call", "done"}

\* C15 witness: a request for a video the cache holds was rejected with 429.
C15_Witness ==
    \E r \in Reqs :
        /\ req[r].pc = "done" /\ req[r].response.status = 429
        /\ Vidid(req[r].url) = StoredDoc.ytid /\ req[r].type = StoredDoc.type
        /\ StoredDoc \in cache

\* C16: a request answered with 400 has read no record of the store and has
\* issued no update: the key record was not fetched and the counter is what
\* it was when the request arrived.
C16_InvalidNoStoreAccess ==
    \A r \in Reqs :
        req[r].pc = "done" /\ req[r].response.status = 400 =>
            /\ crec[r] = NoRecord
            /\ cwrites[r] = {}
            /\ lk[r].pc = "idle"

\* C17: when savetube_info or savetube_download raised, the request is
\* answered with the 500 failure, no task was created for it, and nothing
\* was put in the cache collection or in IN_MEMORY_CACHE on its behalf.
C17_OriginFailure ==
    \A r \in Reqs :
        req[r].response.status = 500 =>
            /\ req[r].pc \in {"close", "done"}
            /\ req[r].response.source = "" /\ req[r].response.url = NoUrl
            /\ job[r] = IdleJob
            /\ lk[r].result = NoDoc
            /\ \A d \in cache : d.file_id # r
            /\ \A p \in Procs, key \in CacheKeys :
                  IN_MEMORY_CACHE[p][key].file_id # r

\* C17 witness: the info POST succeeded, the download POST failed, and the
\* collection holds what it held at startup.
C17_Witness ==
    \E r \in Reqs :
        /\ req[r].pc = "done" /\ req[r].response.status = 500
        /\ req[r].calls = <<"cdn", "info", "cdn", "download">>
        /\ cache = {StoredDoc}
        /\ IN_MEMORY_CACHE[req[r].proc][CacheKey(lk[r].ytid, lk[r].type)] = NoDoc

\* Task j has published nothing: no document of the collection and no
\* entry of a local map carries its file_id.
NothingPublished(j) ==
    /\ "record" \notin job[j].did
    /\ \A d \in cache : d.file_id # j
    /\ \A p \in Procs, key \in CacheKeys : IN_MEMORY_CACHE[p][key].file_id # j

\* A task whose download or upload failed is in its finally block or over,
\* and has published nothing; a task that has written a record has uploaded.
C18_FailedTaskState ==
    \A j \in Jobs :
        /\ job[j].pc \in {"cleanup", "done"} /\ "upload" \notin job[j].did
              => NothingPublished(j)
        /\ "record" \in job[j].did => "upload" \in job[j].did /\ Uploaded(j)
        /\ job[j].pc \in {"save", "insert", "mem"} => Uploaded(j)

\* A task in its finally block or over starts nothing again, and no step
\* changes a request that has been answered.
C18_FailedTaskStep ==
    /\ \A j \in Jobs :
          job[j].pc \in {"cleanup", "done"} =>
              /\ job'[j].pc \in {"cleanup", "done"}
              /\ job'[j].did = job[j].did
    /\ \A r \in Reqs : req[r].pc = "done" => req'[r] = req[r]

\* C18: when the download or the upload of a task fails, no record is
\* published in the collection or in a local map, the task goes to its
\* cleanup and is not run again, and the response already returned stays
\* as it was; a record is written only after an upload succeeded.
C18_FailedArchival == []C18_FailedTaskState /\ [][C18_FailedTaskStep]_vars

\* C18 witness: the request was answered from the origin, its task
\* downloaded, failed to upload and ended, and nothing was published.
C18_Witness ==
    \E r \in Reqs :
        /\ OriginServed(r)
        /\ job[r].pc = "done"
        /\ job[r].did = {"download"}
        /\ JobFile(r) \notin files[JobDir(r)]
        /\ NothingPublished(r)

\* The quality argument is the height (bitrate) of a format of the
\* requested type in the formats list.
AmongFormats(quality, formats, media_type) ==
    \E i \in DOMAIN formats :
        /\ formats[i].type = media_type
        /\ LET descriptor == IF media_type = "video" THEN formats[i].height
                             ELSE formats[i].bitrate
           IN descriptor # NoDescriptor /\ ToString(descriptor) = quality

\* C19: the quality of the download POST is the quality argument when one
\* was given and a format of the requested type has it, and otherwise the
\* value choose_best_quality returns.
C19_PreferredQuality ==
    \A r \in Reqs :
        req[r].pc \in {"download_cdn", "download", "create_task"} =>
            LET formats == req[r].decrypted.formats
                present == /\ req[r].quality # NoQuality
                           /\ AmongFormats(req[r].quality, formats, req[r].type)
            IN req[r].selected_quality =
                  IF present THEN req[r].quality
                  ELSE choose_best_quality(formats, req[r].type)

\* The heights (bitrates) of the formats of the requested type.
DescriptorsOf(formats, media_type) ==
    {(IF media_type = "video" THEN formats[i].height ELSE formats[i].bitrate) :
        i \in {k \in DOMAIN formats : formats[k].type = media_type}}
    \ {NoDescriptor}

Max(S) == CHOOSE x \in S : \A y \in S : y <= x

\* C20: choose_best_quality returns the largest height (bitrate) among the
\* formats of the requested type, whatever the other formats and the order
\* of the list, and the default of the type when no format has that type.
C20_SelectBest ==
    pure.fn = "choose_best_quality" /\ pure.result # "" =>
        LET matching == {i \in DOMAIN pure.formats :
                            pure.formats[i].type = pure.media_type}
            descriptors == DescriptorsOf(pure.formats, pure.media_type)
            default == IF pure.media_type = "video" THEN DEFAULT_VIDEO_QUALITY
                       ELSE DEFAULT_AUDIO_QUALITY
        IN /\ matching = {} => pure.result = default
           /\ descriptors # {} => pure.result = ToString(Max(descriptors))

\* C20 witness: the largest height is last in a list that begins with an
\* audio format of a larger bitrate and a video format without a height.
C20_Witness ==
    /\ pure.media_type = "video"
    /\ Len(pure.formats) = 3
    /\ pure.formats[1].type = "audio" /\ pure.formats[1].bitrate = 960
    /\ pure.formats[2].type = "video" /\ pure.formats[2].height = NoDescriptor
    /\ pure.formats[3].type = "video" /\ pure.formats[3].height = 480
    /\ pure.result = "480"

\* The input is one of the recognized URL shapes around a token: a host and
\* path of YT_RE, with or without scheme and www., then exactly TokenLen id
\* characters.
RecognizedUrl(p) == p.host \in Range(Hosts) /\ Len(p.run) = TokenLen

\* The input is a bare token: nothing but TokenLen id characters and the
\* whitespace around them.
BareToken(p) ==
    /\ p.scheme = <<>> /\ p.www = <<>> /\ p.host = <<>>
    /\ Len(p.run) = TokenLen
    /\ p.tail \in {<<>>, <<" ">>}

Evaluated(fn) == pure.fn = fn /\ pure.result # NotEvaluated

\* C21: on a recognized URL shape around a token T, and on the bare token T,
\* extract_vidid returns T and normalize_youtube_input returns the watch URL
\* of T.
C21_ExtractToken ==
    \A fn \in {"extract_vidid", "normalize_youtube_input"} :
        Evaluated(fn) /\ (RecognizedUrl(pure.parts) \/ BareToken(pure.parts)) =>
            pure.result = IF fn = "extract_vidid" THEN pure.parts.run
                          ELSE WatchUrl \o pure.parts.run

\* A shorts URL without scheme, followed by a query parameter, gave its token.
C21_Witness ==
    /\ Evaluated("extract_vidid")
    /\ pure.parts.host = Hosts[3] /\ pure.parts.scheme = <<>>
    /\ pure.parts.tail = <<"&", "t", "=", "1">>
    /\ pure.result = Run(TokenLen, 1)

\* The input is neither a recognized URL shape nor a bare token: it has no
\* host and path of YT_RE, and is not TokenLen id characters alone.
Unrecognized(p) == p.host \notin Range(Hosts) /\ ~BareToken(p)

\* C22: on an input that is neither a recognized URL shape nor a bare token,
\* extract_vidid returns None and normalize_youtube_input returns the input
\* stripped.
C22_ExtractNone ==
    \A fn \in {"extract_vidid", "normalize_youtube_input"} :
        Evaluated(fn) /\ Unrecognized(pure.parts) =>
            pure.result = IF fn = "extract_vidid" THEN NoVidid
                          ELSE strip(Text(pure.parts))

\* The string is a URL shape of YT_RE around exactly TokenLen id characters,
\* or TokenLen id characters alone, whitespace around it aside.
RecognizedShape(s) ==
    \/ \E scheme \in {<<>>} \cup Range(Schemes), www \in {<<>>} \cup Range(Www),
          host \in Range(Hosts) :
          LET prefix == scheme \o www \o host
              after == Len(prefix) + TokenLen
          IN /\ StartsAt(strip(s), 0, prefix)
             /\ TokenAt(strip(s), Len(prefix))
             /\ after < Len(strip(s)) => strip(s)[after + 1] \notin IdChars
    \/ fullmatch(strip(s))

\* The info POST or the download POST of the request failed.
OriginFailed(r) ==
    LET n == Len(req[r].calls)
    IN /\ n > 0
       /\ \/ req[r].calls[n] = "info" /\ req[r].decrypted = NoMetadata
          \/ req[r].calls[n] = "download" /\ req[r].download_url = NoUrl

\* C23: a request that has returned has status 401 if its token is absent or
\* unknown, 403 if the token was found expired, 429 if the quota was found
\* used up, 400 if it was admitted with an unrecognized reference, and 500 if
\* its info or download call failed; none of these has status 200.
C23_StatusMapping ==
    \A r \in Reqs : req[r].pc = "done" =>
        /\ req[r].api_key \notin KnownKeys => req[r].response.status = 401
        /\ cpc[r] = "r403" => req[r].response.status = 403
        /\ cpc[r] = "r429" => req[r].response.status = 429
        /\ Admitted(r) /\ ~RecognizedShape(req[r].url) =>
               req[r].response.status = 400
        /\ OriginFailed(r) => req[r].response.status = 500

\* C24: decrypt_savetube_data returns the document D on base64 of the iv
\* followed by the CBC encryption of the padded JSON text of D, for every
\* D and iv, and raises on an input whose base64 decoding, unpadding or JSON
\* parsing fails.
C24_DecryptRoundTrip ==
    pure.fn = "decrypt_savetube_data" /\ pure.result.status # "not evaluated" =>
        /\ pure.kind = "encrypted" =>
               pure.result = [status |-> "returned", value |-> pure.doc]
        /\ pure.kind \in {"cut", "unpadded", "not json"} =>
               pure.result = [status |-> "raised"]

\* A document whose padded text fills two blocks, under an iv other than
\* zero, came back.
C24_Witness ==
    /\ pure.fn = "decrypt_savetube_data" /\ pure.kind = "encrypted"
    /\ Len(pure.doc.k) = MaxValue /\ pure.iv = IvOf(1)
    /\ pure.result = [status |-> "returned", value |-> pure.doc]

LookupKey(l) == CacheKey(lk[l].ytid, lk[l].type)

\* What one step does to the lookups and to the local maps.
C25_Step ==
    /\ \A l \in Lookups :
          \* entered: find_one is issued only without a local entry, and an
          \* entry is returned as it is
          /\ lk[l].pc = "idle" /\ lk'[l].pc # "idle" =>
                LET entry == IN_MEMORY_CACHE[lk'[l].proc][CacheKey(lk'[l].ytid, lk'[l].type)]
                IN IF entry = NoDoc
                   THEN lk'[l].pc = "find"
                   ELSE lk'[l].pc = "done" /\ lk'[l].result = entry
                        /\ ~lk'[l].queried
          \* find_one returned: a document is in the local map, None leaves
          \* the maps as they were
          /\ lk[l].pc = "find" /\ lk'[l].pc = "done" =>
                IF lk'[l].result # NoDoc
                THEN IN_MEMORY_CACHE'[lk[l].proc][LookupKey(l)] = lk'[l].result
                ELSE IN_MEMORY_CACHE' = IN_MEMORY_CACHE
          \* a lookup entered after one of its process and pair came back
          \* from the store with a document issues no find_one
          /\ \A b \in Lookups :
                /\ lk[b].pc = "done" /\ lk[b].queried /\ lk[b].result # NoDoc
                /\ lk[l].pc = "idle" /\ lk'[l].pc # "idle"
                /\ lk'[l].proc = lk[b].proc
                /\ CacheKey(lk'[l].ytid, lk'[l].type) = LookupKey(b)
                => lk'[l].pc = "done" /\ lk'[l].result # NoDoc
    \* no entry is removed
    /\ \A p \in Procs, key \in CacheKeys :
          IN_MEMORY_CACHE[p][key] # NoDoc => IN_MEMORY_CACHE'[p][key] # NoDoc

\* C25: get_cached_file issues find_one only when the local map has no
\* entry for the pair; a document find_one returns is in the local map when
\* the call returns, and every lookup of the pair entered in that process
\* afterwards returns without find_one; None from find_one changes no map;
\* no step removes an entry of a local map.
C25_ReadThrough == [][C25_Step]_vars

\* A lookup that found the stored document, and a later one of the same
\* process and pair that returned it without find_one.
C25_Witness ==
    \E b, l \in Lookups :
        /\ b < l /\ lk[b].pc = "done" /\ lk[l].pc = "done"
        /\ lk[b].queried /\ ~lk[l].queried
        /\ lk[b].proc = lk[l].proc /\ LookupKey(b) = LookupKey(l)
        /\ lk[l].result = StoredDoc /\ lk[b].result = StoredDoc

\* What a process and the store hold for a pair: the mark, the local-map
\* entry, the stored documents.
Marked(p, key) == key \in PROCESSING_SET[p]
DocsOf(store, key) == {d \in store : CacheKey(d.ytid, d.type) = key}

\* A step of task j leaves every other pair as it was, in every process.
C26_Step ==
    \A j \in Jobs : job'[j] # job[j] =>
        \A key \in CacheKeys \ {CacheKey(job'[j].ytid, job'[j].type)} :
            /\ DocsOf(cache', key) = DocsOf(cache, key)
            /\ \A p \in Procs :
                  /\ Marked(p, key)' = Marked(p, key)
                  /\ IN_MEMORY_CACHE'[p][key] = IN_MEMORY_CACHE[p][key]

\* A lookup returns None or a document of its own pair.
C26_LookupOwnPair ==
    \A l \in Lookups : lk[l].pc = "done" /\ lk[l].result # NoDoc =>
        CacheKey(lk[l].result.ytid, lk[l].result.type) = LookupKey(l)

\* C26: no step of a task for a pair P, on a task that succeeds or fails,
\* adds, removes or changes the mark, the local-map entry or the stored
\* documents of another pair, and get_cached_file never returns a document
\* of another pair than the one it was asked for.
C26_Isolation == []C26_LookupOwnPair /\ [][C26_Step]_vars

\* A task has published (idA, video) in a process where a task for
\* (idA, audio) holds its mark and has failed to upload, and
\* get_cached_file(idA, audio) has returned None from the store.
C26_Witness ==
    \E j, i \in Jobs, l \in Lookups :
        /\ JobKey(j) = CacheKey(idA, "video") /\ JobKey(i) = CacheKey(idA, "audio")
        /\ job[j].proc = job[i].proc
        /\ job[j].pc = "done" /\ "record" \in job[j].did
        /\ job[i].pc = "cleanup" /\ "record" \notin job[i].did
        /\ Marked(job[i].proc, JobKey(i))
        /\ lk[l].pc = "done" /\ lk[l].queried /\ lk[l].result = NoDoc
        /\ LookupKey(l) = CacheKey(idA, "audio")
        /\ DocsOf(cache, CacheKey(idA, "video")) # {}

\* C27: a request whose get_random_cdn took the except branch is at the
\* POST that follows, with the default host and no response built, and the
\* POST can succeed as well as fail.
C27_HintNeverFatal ==
    \A r \in Reqs : req[r].hint = "failed" =>
        /\ req[r].cdn = DefaultCdn
        /\ req[r].response = NoResponse
        /\ \/ /\ req[r].pc = "info"
              /\ ENABLED savetube_info(r, "ok", [title |-> "Title", formats |-> <<>>])
              /\ ENABLED savetube_info(r, "unavailable", NoMetadata)
           \/ /\ req[r].pc = "download"
              /\ ENABLED savetube_download(r, "ok", AnyUrl)
              /\ ENABLED savetube_download(r, "unavailable", NoUrl)

\* The info POST succeeded, the hint of savetube_download failed, and the
\* download POST is about to be issued to the default host.
C27_Witness ==
    \E r \in Reqs :
        /\ req[r].hint = "failed" /\ req[r].pc = "download"
        /\ req[r].calls = <<"cdn", "info", "cdn">>
        /\ req[r].decrypted # NoMetadata

\* How often a request has made a call.
Times(r, call) == Cardinality({i \in DOMAIN req[r].calls : req[r].calls[i] = call})

\* C28: a request makes the info POST at most once and the download POST at
\* most once, the download POST only after an info POST whose payload
\* decrypted, and a request whose last call is a failed POST is ending with
\* the 500 response.
C28_NoRetry ==
    \A r \in Reqs :
        /\ Times(r, "info") <= 1 /\ Times(r, "download") <= 1
        /\ req[r].pc = "download" \/ "download" \in CallsOf(r) =>
              /\ \E i, k \in DOMAIN req[r].calls :
                    i < k /\ req[r].calls[i] = "info"
                          /\ req[r].calls[k] = IF req[r].pc = "download"
                                               THEN "cdn" ELSE "download"
              /\ req[r].decrypted # NoMetadata
        /\ OriginFailed(r) =>
              req[r].pc \in {"close", "done"} /\ req[r].response.status = 500

\* The info POST succeeded, the download POST failed, and the request has
\* returned 500 after four calls to the origin.
C28_Witness ==
    \E r \in Reqs :
        /\ req[r].pc = "done" /\ req[r].response.status = 500
        /\ req[r].calls = <<"cdn", "info", "cdn", "download">>
        /\ req[r].decrypted # NoMetadata

\* C29: a request whose get_cached_file returned a document builds no
\* failure response, and when it has returned, its result has status 200,
\* source "telegram_cache", the document's file_id and msg_id, and the file
\* URL or the getFile URL of that file_id.
C29_CacheHitSucceeds ==
    \A r \in Reqs : req[r].pc # "idle" /\ lk[r].pc = "done" /\ CacheHit(lk[r].result) =>
        /\ req[r].response.status \in {0, 200}
        /\ req[r].pc = "done" =>
              /\ req[r].response.status = 200
              /\ req[r].response.source = "telegram_cache"
              /\ req[r].response.file_id = lk[r].result.file_id
              /\ req[r].response.msg_id = lk[r].result.msg_id
              /\ req[r].response.url \in {FileUrl(lk[r].result.file_id),
                                          GetFileUrl(lk[r].result.file_id)}

\* get_file and the getFile API were both asked and the request has
\* returned the getFile URL of the stored file.
C29_Witness ==
    \E r \in Reqs :
        /\ req[r].pc = "done" /\ lk[r].result = StoredDoc
        /\ req[r].calls = <<"get_file", "get_file_api">>
        /\ req[r].response.status = 200
        /\ req[r].response.url = GetFileUrl(StoredId)

\* The requests that were admitted with canonical date d.
AdmittedReqs(k, d) ==
    {r \in Reqs : req[r].pc # "idle" /\ req[r].api_key = k /\ r \in AdmittedCalls(k, d)}

\* Between requests the stored counter is the number of requests admitted
\* on the stored date, whatever they returned.
C30_Counted ==
    Quiet =>
        \A k \in KnownKeys :
            apikeys[k].last_used_date # NoDate =>
                apikeys[k].used_today =
                    Cardinality(AdmittedReqs(k, apikeys[k].last_used_date))

\* The increment of an admitted request adds one, and no step of a request
\* outside check_api_key writes the record.
C30_Step ==
    \A k \in KnownKeys :
        /\ \A r \in Reqs :
              req[r].api_key = k /\ cpc[r] = "inc" /\ cpc'[r] = "admitted" =>
                  apikeys'[k].used_today = apikeys[k].used_today + 1
        /\ apikeys'[k] # apikeys[k] =>
              \E r \in Reqs : cpc[r] \in {"check", "reset", "inc"} /\ cpc'[r] # cpc[r]
        /\ apikeys'[k].used_today < apikeys[k].used_today =>
              \E r \in Reqs : cpc[r] = "reset" /\ ctoday[r] # apikeys[k].last_used_date

\* C30: the admission of a request adds exactly one to the token's counter,
\* no later step of the request changes the counter, and after k requests
\* admitted one after the other on one day the counter is k, whatever the
\* requests returned.
C30_CountsEveryAdmitted == []C30_Counted /\ [][C30_Step]_vars

\* Two requests admitted on one day, the first answered 400 and the second
\* 500 after the origin failed: the counter is 2.
C30_Witness ==
    \E k \in KnownKeys, a, b \in Reqs :
        /\ a < b /\ Quiet
        /\ req[a].api_key = k /\ req[b].api_key = k
        /\ Admitted(a) /\ Admitted(b) /\ ctoday[a] = ctoday[b]
        /\ req[a].response.status = 400 /\ req[b].response.status = 500
        /\ apikeys[k].used_today = 2

\* Tasks between their check-and-mark and their cleanup whose filepath is
\* in one directory have different file names.
C31_PathsApart ==
    \A i, j \in Jobs :
        /\ i # j
        /\ job[i].pc \in Running /\ job[j].pc \in Running
        /\ JobDir(i) = JobDir(j)
        => JobFile(i) # JobFile(j)

\* The os.remove of a task's cleanup leaves in place every file that another
\* running task has written and not yet cleaned up.
C31_Step ==
    \A i, j \in Jobs :
        /\ i # j
        /\ job[j].pc = "cleanup" /\ job'[j].pc = "done"
        /\ job[i].pc \in Running /\ "download" \in job[i].did
        /\ JobFile(i) \in files[JobDir(i)]
        => JobFile(i) \in files'[JobDir(i)]

\* C31: no two tasks in flight at the same time write or delete the same
\* filepath: tasks in flight together differ in ytid or type, so the cleanup
\* of one task never removes a file another running task is writing.
C31_NoSharedTempFile == []C31_PathsApart /\ [][C31_Step]_vars

====
